---- MODULE Spec2Model ----
(***************************************************************************)
(* A model of the neo-go node core: the stack virtual machine (pkg/vm),    *)
(* the signature opcodes, the peer handshake of the network server and     *)
(* the address discovery component.  Each subsystem has its own initial    *)
(* predicate, next-state relation and specification; the variables of the  *)
(* other subsystems stay unchanged under it.                               *)
(***************************************************************************)
EXTENDS Integers, Sequences, FiniteSets, Bags, TLC

VARIABLES
    v,          \* the VM object (struct VM of vm.go) with its stacks and heap
    call,       \* the stepping operation in progress and its locals
    ret,        \* what the last stepping operation returned
    exec,       \* the last instruction fetched and how its execution ended
    loaded,     \* whether Load/LoadScript was already called on this VM
    sigvm,      \* a VM set up for one signature check
    sigin,      \* the opcode, signatures and keys that VM was given
    sigret,     \* whether Run was called on it, and the error returned
    conn,       \* the connections of the server: one TCPPeer each
    peers,      \* Server.peers, the registry of the server loop
    registering,\* the peer the server loop took from the register channel
    maxPeers,   \* ServerConfig.MaxPeers
    handled,    \* the last message given to handleMessage and its outcome
    d,          \* the DefaultDiscovery: its three address sets and its pool
    requested,  \* the counter of the loop of DefaultDiscovery.run
    dialing,    \* the bag of the addresses the tryAddress goroutines dial
    blocked,    \* the tryAddress goroutines waiting in RequestRemote(1)
    dropping,   \* the address of the peer drop the server loop is handling
    taken,      \* how many addresses run has taken from the pool
    failed,     \* for each address not connected, the failed dials since
                \* BackFill admitted it
    link,       \* for each connection the position of its handleConn and
                \* of its startProtocol, and whether it is still open
    quit,       \* whether Server.quit is closed
    loop,       \* whether Server.run is running or has returned
    dialed,     \* tryAddress is between Dial and registerConnectedAddr
    mem,        \* the hashes of the transactions in the mempool
    rt,         \* the call of RelayTxn: its inputs, its position, its result
    pv,         \* for each peer its version (with relay or not) and
                \* whether its handshake is complete
    lk,         \* the write lock of Server.lock: the write it protects
    rlocked,    \* the holders of the read lock of Server.lock
    msgs,       \* the messages a peer sends, in the order they arrive
    cur,        \* how many of them handleConn has decoded
    busy,       \* whether handleMessage is running for the last of them
    adding,     \* the headers messages whose handleHeadersCmd is running
    effects,    \* the messages in the order their effect on the chain
                \* (headers added, block queued) was complete
    num,        \* the numeric opcode executed last, its operands and what
                \* it left
    srv,        \* what the node has (chain, mempool, block queue), what it
                \* wrote to a handshaked peer and the message handled last
    wire,       \* a payload, the bytes its encoder wrote and what the
                \* decoder made of them
    pub,        \* the bytes given to PublicKey.DecodeBinary, the key
                \* decoded into and what the call left
    proto,      \* the heights of the node and of a peer, the protocol
                \* tick of the peer and what it sent
    dump        \* the chain dumped, the options, the file written and the
                \* chain restored from it

vmVars == <<v, call, ret, exec, loaded>>
sigVars == <<sigvm, sigin, sigret>>
netVars == <<conn, peers, registering, maxPeers, handled>>
discVars == <<d, requested, dialing, blocked, dropping, taken, failed>>
loopVars == <<link, quit, loop, dialed>>
relayVars == <<mem, rt, pv, lk, rlocked>>
orderVars == <<msgs, cur, busy, adding, effects>>
payloadVars == <<srv, wire>>
toolVars == <<pub, proto, dump>>

vars == <<v, call, ret, exec, loaded, sigvm, sigin, sigret,
          conn, peers, registering, maxPeers, handled,
          d, requested, dialing, blocked, dropping, taken, failed,
          link, quit, loop, dialed, mem, rt, pv, lk, rlocked,
          msgs, cur, busy, adding, effects, num, srv, wire,
          pub, proto, dump>>

\* What the actions of one subsystem leave unchanged.
notVM == <<sigVars, netVars, discVars, loopVars, relayVars, orderVars, num, payloadVars, toolVars>>
notSig == <<vmVars, netVars, discVars, loopVars, relayVars, orderVars, num, payloadVars, toolVars>>
notNet == <<vmVars, sigVars, discVars, loopVars, relayVars, orderVars, num, payloadVars, toolVars>>
notDisc == <<vmVars, sigVars, netVars, loopVars, relayVars, orderVars, num, payloadVars, toolVars>>
notLoop == <<vmVars, sigVars, relayVars, orderVars, num, payloadVars, toolVars>>
notRelay == <<vmVars, sigVars, discVars, loopVars, orderVars, num, payloadVars, toolVars>>
notOrder == <<vmVars, sigVars, netVars, discVars, loopVars, relayVars, num, payloadVars, toolVars>>
notNum == <<vmVars, sigVars, netVars, discVars, loopVars, relayVars, orderVars,
           payloadVars, toolVars>>
notServed == <<vmVars, sigVars, netVars, discVars, loopVars, relayVars, orderVars,
              num, wire, toolVars>>
notWire == <<vmVars, sigVars, netVars, discVars, loopVars, relayVars, orderVars,
            num, srv, toolVars>>
notPub == <<vmVars, sigVars, netVars, discVars, loopVars, relayVars, orderVars,
           num, payloadVars, proto, dump>>
notProto == <<vmVars, sigVars, netVars, discVars, loopVars, relayVars, orderVars,
             num, payloadVars, pub, dump>>
notDump == <<vmVars, sigVars, netVars, discVars, loopVars, relayVars, orderVars,
            num, payloadVars, pub, proto>>

(***************************************************************************)
(* Program constants of pkg/vm.                                            *)
(***************************************************************************)
MaxArraySize == 1024
MaxInvocationStackSize == 1024
MaxStackSize == 2048
MaxBigIntegerSizeBits == 256
maxPoolSize == 200
connRetries == 3

(***************************************************************************)
(* Bounds of the model.                                                    *)
(***************************************************************************)
\* longest enumerated script (scripts of the catalog may be longer)
MaxProgLen == 1
\* most breakpoints added to one VM
MaxBreakPoints == 1
\* distinct key pairs
NumKeys == 3
\* most signatures and most keys given to CHECKMULTISIG
MaxSigs == 2
MaxKeys == 3
\* connections made to the server
NumPeers == 2
\* addresses the peers connect from
NumAddrs == 2
\* version nonces in use, the server's among them
NumNonces == 2
\* addresses whose peers connect and drop
NumTracked == 2
\* largest AttemptConnPeers given to RequestRemote
MaxAttempt == 2
\* connections made to the server loop
NumConns == 4
\* largest MaxPeers of the configuration
MaxMaxPeers == 2
\* transactions given to RelayTxn
NumTxs == 2
\* hashes of blocks and transactions
NumHashes == 2
\* messages and calls the server handles
MaxServed == 2
\* length of the long script of a PublishTX
LongScript == 253
\* messages a peer sends
MaxMsgs == 3
\* integers h * 2^254 + l given to the numeric opcodes: largest h, largest l
MaxHi == 4
MaxLo == 2
\* largest shift given to SHL
MaxShift == 2
\* addresses the worker loop takes from the pool
MaxTaken == 5
\* tryAddress goroutines at a time
MaxTrying == 1

(***************************************************************************)
(* VM state flags (type State): a set of flags, none = {}.                 *)
(***************************************************************************)
noneState == {}
haltState == {"halt"}
faultState == {"fault"}
breakState == {"break"}

HasFlag(s, f) == f \subseteq s

(***************************************************************************)
(* Stack items.  Every item is a record [t, v]: an integer carries its     *)
(* value, a boolean 0/1, a collection the index of its object in the heap. *)
(***************************************************************************)
IntItem(n) == [t |-> "int", v |-> n]
BoolItem(b) == [t |-> "bool", v |-> IF b THEN 1 ELSE 0]
ArrayItem(id) == [t |-> "array", v |-> id]
BytesItem(n) == [t |-> "bytes", v |-> n]

IsColl(it) == it.t \in {"array", "struct", "map"}

(***************************************************************************)
(* Instructions.  A script is a sequence of instructions, one slot each;   *)
(* jump offsets count slots.  a, b, c are the operands.                    *)
(***************************************************************************)
Ins(op, a, b, c) == [op |-> op, a |-> a, b |-> b, c |-> c]
I0(op) == Ins(op, 0, 0, 0)
I1(op, a) == Ins(op, a, 0, 0)

Repeat(x, n) == [i \in 1..n |-> x]

(***************************************************************************)
(* Errors (errorAtInstruct): the instruction pointer and opcode recorded.  *)
(***************************************************************************)
NoErr == [ip |-> -1, op |-> "", msg |-> ""]
newError(ip, op, msg) == [ip |-> ip, op |-> op, msg |-> msg]

(***************************************************************************)
(* Contexts.  estack/astack are indices into v.stacks; bps is the set of   *)
(* breakpoints.                                                            *)
(***************************************************************************)
NewContext(b) ==
    [prog |-> b, ip |-> 0, nextip |-> 0, rvcount |-> -1,
     estack |-> 0, astack |-> 0, bps |-> {}]

\* Context.Next: ip moves to nextip; past the end of the script the
\* instruction is RET; an instruction whose operand is cut off by the end of
\* the script is an error.
Next(c) ==
    LET ip == c.nextip IN
    IF ip >= Len(c.prog)
    THEN [c |-> [c EXCEPT !.ip = ip], ins |-> I0("RET"), err |-> FALSE]
    ELSE LET ins == c.prog[ip + 1] IN
         [c |-> [c EXCEPT !.ip = ip, !.nextip = ip + 1], ins |-> ins,
          err |-> (ins.op = "PUSHDATA1" /\ ins.a < 0)]

atBreakPoint(c) == c.nextip \in c.bps

(***************************************************************************)
(* Stacks.  v.stacks[1] and v.stacks[2] are the evaluation and alt stacks  *)
(* made by newItemStack in New(): they carry the pointer to v.size and the *)
(* itemCount map.  Every other stack is made by NewStack and carries none. *)
(* The top of a stack is the end of its sequence.                          *)
(***************************************************************************)
newItemStackIds == {1, 2}

Counted(sid) == sid \in newItemStackIds

RECURSIVE updateSizeAddAll(_, _, _)
updateSizeAdd1(vv, it) ==
    IF ~IsColl(it) THEN [vv EXCEPT !.size = @ + 1]
    ELSE IF vv.itemCount[it.v] >= 1
    THEN [vv EXCEPT !.size = @ + 1, !.itemCount[it.v] = @ + 1]
    ELSE LET elems == vv.heap[it.v]
             colls == SelectSeq(elems, IsColl)
         IN  updateSizeAddAll(
                [vv EXCEPT !.size = @ + 1 + (Len(elems) - Len(colls)),
                           !.itemCount[it.v] = 1], colls, 1)
updateSizeAddAll(vv, s, i) ==
    IF i > Len(s) THEN vv
    ELSE updateSizeAddAll(updateSizeAdd1(vv, s[i]), s, i + 1)

RECURSIVE updateSizeRemoveAll(_, _, _)
updateSizeRemove1(vv, it) ==
    IF ~IsColl(it) THEN [vv EXCEPT !.size = @ - 1]
    ELSE IF vv.itemCount[it.v] > 1
    THEN [vv EXCEPT !.size = @ - 1, !.itemCount[it.v] = @ - 1]
    ELSE LET elems == vv.heap[it.v]
             colls == SelectSeq(elems, IsColl)
         IN  updateSizeRemoveAll(
                [vv EXCEPT !.size = @ - 1 - (Len(elems) - Len(colls)),
                           !.itemCount[it.v] = 0], colls, 1)
updateSizeRemoveAll(vv, s, i) ==
    IF i > Len(s) THEN vv
    ELSE updateSizeRemoveAll(updateSizeRemove1(vv, s[i]), s, i + 1)

\* Stack.updateSizeAdd / updateSizeRemove: nothing on a stack without size.
updateSizeAdd(vv, sid, it) == IF Counted(sid) THEN updateSizeAdd1(vv, it) ELSE vv
updateSizeRemove(vv, sid, it) == IF Counted(sid) THEN updateSizeRemove1(vv, it) ELSE vv

StackLen(vv, sid) == Len(vv.stacks[sid])

\* Peek(n): the n-th item from the top, n = 0 is the top.
Peek(vv, sid, n) == vv.stacks[sid][StackLen(vv, sid) - n]

Push(vv, sid, it) ==
    updateSizeAdd([vv EXCEPT !.stacks[sid] = Append(@, it)], sid, it)

\* RemoveAt(n) of a stack holding more than n items.
RemoveAt(vv, sid, n) ==
    LET s == vv.stacks[sid]
        k == Len(s) - n
    IN  updateSizeRemove(
            [vv EXCEPT !.stacks[sid] = SubSeq(s, 1, k - 1) \o SubSeq(s, k + 1, Len(s))],
            sid, s[k])

Pop(vv, sid) == RemoveAt(vv, sid, 0)

\* A new heap object holding elems; returns the VM and the object's index.
NewObject(vv, elems) ==
    [vv EXCEPT !.heap = Append(@, elems), !.itemCount = Append(@, 0),
               !.keys = Append(@, <<>>)]

\* An integer item of more than 64 bits: hi * 2^64 + lo.
WideItem(hi, lo) == [t |-> "int", v |-> lo, hi |-> hi]

\* The bits above the low 64 of the integer of an item.
High(it) == IF "hi" \in DOMAIN it THEN it.hi ELSE 0

\* item.BigInt().Int64(): the low 64 bits of the integer.
Int64(it) == it.v

(***************************************************************************)
(* Scripts served by the script getter (SetScriptGetter): hash -> script.  *)
(* Hash 0 is unknown to the getter (it returns nil).                       *)
(***************************************************************************)
BigPush == I1("PUSHBYTES2", MaxArraySize)

getScript(h) ==
    CASE h = 1 -> <<BigPush, I0("NEWARRAY"), BigPush, I0("NEWARRAY")>>
      [] h = 2 -> <<I0("PUSH1"), I0("PUSH2"), I0("RET")>>
      [] h = 3 -> <<I0("DROP"), I0("THROW")>>
      [] h = 4 -> <<I1("TAILCALL", 4)>>
      [] OTHER -> <<>>

ScriptKnown(h) == h \in {1, 2, 3, 4}

(***************************************************************************)
(* The opcode handlers of VM.execute.  Each yields the VM after the        *)
(* handler, whether the handler panicked (the effects made before the      *)
(* panic stay), and the error an inner execute returned.                   *)
(***************************************************************************)
Done(vv) == [v |-> vv, panic |-> FALSE, err |-> NoErr]
Panic(vv) == [v |-> vv, panic |-> TRUE, err |-> NoErr]

Context(vv) == vv.istack[Len(vv.istack)]

Ready(vv) == Len(vv.istack) > 0

HasFailed(vv) == HasFlag(vv.state, faultState)
HasHalted(vv) == HasFlag(vv.state, haltState)
HasStopped(vv) == HasFlag(vv.state, haltState) \/ HasFlag(vv.state, faultState)
AtBreakpoint(vv) == HasFlag(vv.state, breakState)

\* checkInvocationStackSize that never panics.
checkInvocationStackSizeSkipped(vv) == FALSE

checkInvocationStackSizeFails(vv) == Len(vv.istack) >= MaxInvocationStackSize

PushValue(op) == CASE op = "PUSH1" -> 1 [] op = "PUSH2" -> 2 [] OTHER -> 0

opPUSH(vv, n) == Done(Push(vv, vv.estack, IntItem(n)))

opTOALTSTACK(vv) ==
    IF StackLen(vv, vv.estack) = 0 THEN Panic(vv)
    ELSE LET it == Peek(vv, vv.estack, 0) IN
         Done(Push(Pop(vv, vv.estack), vv.astack, it))

opFROMALTSTACK(vv) ==
    IF StackLen(vv, vv.astack) = 0 THEN Panic(vv)
    ELSE LET it == Peek(vv, vv.astack, 0) IN
         Done(Push(Pop(vv, vv.astack), vv.estack, it))

opDUP(vv) ==
    IF StackLen(vv, vv.estack) = 0 THEN Panic(vv)
    ELSE Done(Push(vv, vv.estack, Peek(vv, vv.estack, 0)))

opDUPFROMALTSTACK(vv) ==
    IF StackLen(vv, vv.astack) = 0 THEN Panic(vv)
    ELSE Done(Push(vv, vv.estack, Peek(vv, vv.astack, 0)))

opDROP(vv) ==
    IF StackLen(vv, vv.estack) < 1 THEN Panic(vv) ELSE Done(Pop(vv, vv.estack))

makeArrayOfFalses(n) == Repeat(BoolItem(FALSE), n)

\* Pushes a reference to the object made last.
pushNewestAs(vv, kind) ==
    Done(Push(vv, vv.estack, [t |-> kind, v |-> Len(vv.heap)]))

pushNewest(vv) == pushNewestAs(vv, "array")

\* NEWARRAY and NEWSTRUCT after the pop of the operand: an item of the kind
\* asked for is pushed back, one of the other kind is copied, and anything
\* else is the number of elements (a map has no integer).
\* A conversion that keeps the element list of the operand.
newCollOfSameList(vv, item, kind, other) ==
    IF item.t \in {kind, other}
    THEN Done(Push(vv, vv.estack, [t |-> kind, v |-> item.v]))
    ELSE IF item.t = "map" THEN Panic(vv)
    ELSE IF Int64(item) > MaxArraySize \/ Int64(item) < 0 THEN Panic(vv)
    ELSE pushNewestAs(NewObject(vv, makeArrayOfFalses(Int64(item))), kind)

newCollOf(vv, item, kind, other) ==
    IF item.t = kind THEN Done(Push(vv, vv.estack, item))
    ELSE IF item.t = other
    THEN pushNewestAs(NewObject(vv, vv.heap[item.v]), kind)
    ELSE IF item.t = "map" THEN Panic(vv)
    ELSE IF Int64(item) > MaxArraySize \/ Int64(item) < 0 THEN Panic(vv)
    ELSE pushNewestAs(NewObject(vv, makeArrayOfFalses(Int64(item))), kind)

newArrayOf(vv, item) == newCollOf(vv, item, "array", "struct")

opNEWARRAY(vv) ==
    IF StackLen(vv, vv.estack) = 0 THEN Panic(vv)
    ELSE newArrayOf(Pop(vv, vv.estack), Peek(vv, vv.estack, 0))

opNEWSTRUCT(vv) ==
    IF StackLen(vv, vv.estack) = 0 THEN Panic(vv)
    ELSE newCollOf(Pop(vv, vv.estack), Peek(vv, vv.estack, 0), "struct", "array")

RECURSIVE PopN(_, _, _)
PopN(vv, sid, n) == IF n = 0 THEN vv ELSE PopN(Pop(vv, sid), sid, n - 1)

\* PACK after the pop of the element count.
packTop(vv, top) ==
    IF IsColl(top) \/ Int64(top) < 0 \/ Int64(top) > StackLen(vv, vv.estack)
       \/ Int64(top) > MaxArraySize
    THEN Panic(vv)
    ELSE pushNewest(NewObject(PopN(vv, vv.estack, Int64(top)),
                              [i \in 1..Int64(top) |-> Peek(vv, vv.estack, i - 1)]))

opPACK(vv) ==
    IF StackLen(vv, vv.estack) = 0 THEN Panic(vv)
    ELSE packTop(Pop(vv, vv.estack), Peek(vv, vv.estack, 0))

\* A check of the key that lets every key pass.
validateMapKeySkipped(key) == FALSE

\* validateMapKey panics for a key (not nil) that is an array, a struct or a
\* map.
validateMapKeyFails(key) == IsColl(key)

(***************************************************************************)
(* Structs, APPEND, SETITEM and maps.  A map is the sequence of its keys   *)
(* (v.keys) and the sequence of its values (v.heap), in the order of the   *)
(* first Add of each key; KEYS and VALUES give them in that order (the     *)
(* order Go ranges over a map is left out).                                *)
(***************************************************************************)
\* StructItem.Clone: the nested structs are cloned too.  at is the sequence
\* of the positions of elems that hold a struct.
RECURSIVE cloneAt(_, _, _, _)
cloneStruct(vv, elems) ==
    LET at == SelectSeq([i \in DOMAIN elems |-> i], LAMBDA i : elems[i].t = "struct")
        r == cloneAt(vv, elems, at, 1)
        made == NewObject(r.v, r.elems)
    IN  [v |-> made, it |-> [t |-> "struct", v |-> Len(made.heap)]]
cloneAt(vv, elems, at, k) ==
    IF k > Len(at) THEN [v |-> vv, elems |-> elems]
    ELSE LET c == cloneStruct(vv, vv.heap[elems[at[k]].v]) IN
         cloneAt(c.v, [elems EXCEPT ![at[k]] = c.it], at, k + 1)

\* A value that is passed on as it is.
cloneIfStructShared(vv, it) == [v |-> vv, it |-> it]

cloneIfStruct(vv, it) ==
    IF it.t = "struct" THEN cloneStruct(vv, vv.heap[it.v]) ELSE [v |-> vv, it |-> it]

\* APPEND after the two pops and the clone: c holds the VM and the value.
appendTo(c, arrElem) ==
    IF arrElem.t \notin {"array", "struct"} THEN Panic(c.v)
    ELSE IF Len(c.v.heap[arrElem.v]) >= MaxArraySize THEN Panic(c.v)
    ELSE Done(updateSizeAdd([c.v EXCEPT !.heap[arrElem.v] = Append(@, c.it)],
                            c.v.estack, c.it))

\* Pop gives nil on an empty stack: the panic comes when the nil is used.
opAPPEND(vv) ==
    IF StackLen(vv, vv.estack) = 0 THEN Panic(vv)
    ELSE IF StackLen(vv, vv.estack) = 1 THEN Panic(Pop(vv, vv.estack))
    ELSE appendTo(cloneIfStruct(PopN(vv, vv.estack, 2), Peek(vv, vv.estack, 0)),
                  Peek(vv, vv.estack, 1))

\* MapItem.Has and the place of the key among the keys of the map.
Has(vv, id, key) == \E i \in DOMAIN vv.keys[id] : vv.keys[id][i] = key
IndexOf(vv, id, key) == CHOOSE i \in DOMAIN vv.keys[id] : vv.keys[id][i] = key

\* MapItem.Add.
Add(vv, id, key, item) ==
    IF Has(vv, id, key)
    THEN [vv EXCEPT !.heap[id][IndexOf(vv, id, key)] = item]
    ELSE [vv EXCEPT !.heap[id] = Append(@, item), !.keys[id] = Append(@, key)]

\* SETITEM after the three pops.
setItem(vv, obj, key, item) ==
    IF IsColl(key) THEN Panic(vv)
    ELSE IF obj.t \in {"array", "struct"}
    THEN IF Int64(key) < 0 \/ Int64(key) >= Len(vv.heap[obj.v]) THEN Panic(vv)
         ELSE Done(updateSizeAdd(
                 [updateSizeRemove(vv, vv.estack, vv.heap[obj.v][Int64(key) + 1])
                    EXCEPT !.heap[obj.v][Int64(key) + 1] = item],
                 vv.estack, item))
    ELSE IF obj.t = "map"
    THEN IF Has(vv, obj.v, key)
         THEN Done(updateSizeAdd(
                 Add(updateSizeRemove(vv, vv.estack, item), obj.v, key, item),
                 vv.estack, item))
         ELSE IF Len(vv.heap[obj.v]) >= MaxArraySize THEN Panic(vv)
         ELSE Done(updateSizeAdd(Add(vv, obj.v, key, item), vv.estack, item))
    ELSE Panic(vv)

\* The pops of SETITEM come one by one: validateMapKey panics after two.
opSETITEM(vv) ==
    IF StackLen(vv, vv.estack) = 0 THEN Panic(vv)
    ELSE IF StackLen(vv, vv.estack) = 1 THEN Panic(Pop(vv, vv.estack))
    ELSE IF validateMapKeyFails(Peek(vv, vv.estack, 1)) THEN Panic(PopN(vv, vv.estack, 2))
    ELSE IF StackLen(vv, vv.estack) < 3 THEN Panic(PopN(vv, vv.estack, 2))
    ELSE setItem(PopN(vv, vv.estack, 3), Peek(vv, vv.estack, 2),
                 Peek(vv, vv.estack, 1), Peek(vv, vv.estack, 0))

opNEWMAP(vv) == pushNewestAs(NewObject(vv, <<>>), "map")

opKEYS(vv) ==
    IF StackLen(vv, vv.estack) = 0 THEN Panic(vv)
    ELSE IF Peek(vv, vv.estack, 0).t # "map" THEN Panic(Pop(vv, vv.estack))
    ELSE pushNewest(NewObject(Pop(vv, vv.estack), vv.keys[Peek(vv, vv.estack, 0).v]))

\* VALUES: the elements, structs cloned, in a new array.
opVALUES(vv) ==
    IF StackLen(vv, vv.estack) = 0 THEN Panic(vv)
    ELSE IF ~IsColl(Peek(vv, vv.estack, 0)) THEN Panic(Pop(vv, vv.estack))
    ELSE LET src == vv.heap[Peek(vv, vv.estack, 0).v]
             at == SelectSeq([i \in DOMAIN src |-> i], LAMBDA i : src[i].t = "struct")
             r == cloneAt(Pop(vv, vv.estack), src, at, 1)
         IN  pushNewest(NewObject(r.v, r.elems))

(***************************************************************************)
(* PICKITEM, REVERSE, REMOVE and HASKEY.                                   *)
(***************************************************************************)
\* A byte array with its bytes; v is the integer the bytes convert to.
ByteArray(bs, n) == [t |-> "bytes", v |-> n, b |-> bs]

\* Element.Bytes of an item that is no collection: the bytes of a byte
\* array, one byte for a boolean, no byte for the integer 0 and one byte
\* for an integer of 1..127 (larger integers are not used as byte arrays).
ByteSeq(it) ==
    IF "b" \in DOMAIN it THEN it.b
    ELSE IF it.t = "bool" THEN <<it.v>>
    ELSE IF it.v = 0 THEN <<>> ELSE <<it.v>>

\* PICKITEM after the two pops.
pickItem(vv, obj, key) ==
    IF obj.t \in {"array", "struct"}
    THEN IF Int64(key) < 0 \/ Int64(key) >= Len(vv.heap[obj.v]) THEN Panic(vv)
         ELSE Done(Push(vv, vv.estack, vv.heap[obj.v][Int64(key) + 1]))
    ELSE IF obj.t = "map"
    THEN IF ~Has(vv, obj.v, key) THEN Panic(vv)
         ELSE Done(Push(vv, vv.estack, vv.heap[obj.v][IndexOf(vv, obj.v, key)]))
    ELSE IF Int64(key) < 0 \/ Int64(key) >= Len(ByteSeq(obj)) THEN Panic(vv)
    ELSE Done(Push(vv, vv.estack, IntItem(ByteSeq(obj)[Int64(key) + 1])))

\* The key is popped and validated, then the object is popped.
opPICKITEM(vv) ==
    IF StackLen(vv, vv.estack) = 0 THEN Panic(vv)
    ELSE IF validateMapKeyFails(Peek(vv, vv.estack, 0)) \/ StackLen(vv, vv.estack) = 1
    THEN Panic(Pop(vv, vv.estack))
    ELSE pickItem(PopN(vv, vv.estack, 2), Peek(vv, vv.estack, 1), Peek(vv, vv.estack, 0))

Reversed(s) == [i \in DOMAIN s |-> s[Len(s) + 1 - i]]

\* REVERSE: Array() panics for what is neither an array nor a struct.
opREVERSE(vv) ==
    IF StackLen(vv, vv.estack) = 0 THEN Panic(vv)
    ELSE IF Peek(vv, vv.estack, 0).t \notin {"array", "struct"}
    THEN Panic(Pop(vv, vv.estack))
    ELSE Done([Pop(vv, vv.estack) EXCEPT
                  !.heap[Peek(vv, vv.estack, 0).v] = Reversed(@)])

Without(s, k) == SubSeq(s, 1, k - 1) \o SubSeq(s, k + 1, Len(s))

\* REMOVE after the two pops.  For a key the map does not have, the size is
\* updated for the nil item the Go map gives and nothing is deleted.
removeItem(vv, elem, key) ==
    IF elem.t \in {"array", "struct"}
    THEN IF Int64(key) < 0 \/ Int64(key) >= Len(vv.heap[elem.v]) THEN Panic(vv)
         ELSE Done([updateSizeRemove(vv, vv.estack, vv.heap[elem.v][Int64(key) + 1])
                      EXCEPT !.heap[elem.v] = Without(@, Int64(key) + 1)])
    ELSE IF elem.t = "map"
    THEN IF ~Has(vv, elem.v, key)
         THEN Done(IF Counted(vv.estack) THEN [vv EXCEPT !.size = @ - 1] ELSE vv)
         ELSE Done([updateSizeRemove(vv, vv.estack,
                                     vv.heap[elem.v][IndexOf(vv, elem.v, key)])
                      EXCEPT !.heap[elem.v] = Without(@, IndexOf(vv, elem.v, key)),
                             !.keys[elem.v] = Without(@, IndexOf(vv, elem.v, key))])
    ELSE Panic(vv)

opREMOVE(vv) ==
    IF StackLen(vv, vv.estack) = 0 THEN Panic(vv)
    ELSE IF validateMapKeyFails(Peek(vv, vv.estack, 0)) \/ StackLen(vv, vv.estack) = 1
    THEN Panic(Pop(vv, vv.estack))
    ELSE removeItem(PopN(vv, vv.estack, 2), Peek(vv, vv.estack, 1),
                    Peek(vv, vv.estack, 0))

\* HASKEY after the two pops.
hasKey(vv, c, key) ==
    IF c.t \in {"array", "struct"}
    THEN IF Int64(key) < 0 THEN Panic(vv)
         ELSE Done(Push(vv, vv.estack, BoolItem(Int64(key) < Len(vv.heap[c.v]))))
    ELSE IF c.t = "map"
    THEN Done(Push(vv, vv.estack, BoolItem(Has(vv, c.v, key))))
    ELSE Panic(vv)

opHASKEY(vv) ==
    IF StackLen(vv, vv.estack) = 0 THEN Panic(vv)
    ELSE IF validateMapKeyFails(Peek(vv, vv.estack, 0)) \/ StackLen(vv, vv.estack) = 1
    THEN Panic(Pop(vv, vv.estack))
    ELSE hasKey(PopN(vv, vv.estack, 2), Peek(vv, vv.estack, 1), Peek(vv, vv.estack, 0))

(***************************************************************************)
(* EQUAL.  reflect.DeepEqual follows the pointers of the two popped        *)
(* elements down to the Go values: the types must be the same, and the     *)
(* big.Int of two integer items must have the same sign and the same       *)
(* slice of words.  The slice of zero is nil when the integer comes from   *)
(* big.NewInt (PushVal of an int, as SIGN does) and an empty slice when    *)
(* it is the result of Add or Sub (ADD, SUB, INC, DEC): DeepEqual tells    *)
(* the two apart.                                                          *)
(***************************************************************************)
\* The zero that arithmetic leaves.
ZeroOfSub == [t |-> "int", v |-> 0, abs |-> "empty"]

absIsNil(it) == "abs" \notin DOMAIN it

RECURSIVE DeepEqual(_, _, _)
DeepEqual(vv, x, y) ==
    IF x.t # y.t THEN FALSE
    ELSE IF x.t = "int" THEN x.v = y.v /\ (x.v = 0 => absIsNil(x) = absIsNil(y))
    ELSE IF ~IsColl(x) THEN x.v = y.v
    ELSE IF x.v = y.v THEN TRUE
    ELSE IF x.t = "map"
    THEN /\ Len(vv.keys[x.v]) = Len(vv.keys[y.v])
         /\ \A i \in DOMAIN vv.keys[x.v] :
               \E j \in DOMAIN vv.keys[y.v] :
                  /\ vv.keys[x.v][i] = vv.keys[y.v][j]
                  /\ DeepEqual(vv, vv.heap[x.v][i], vv.heap[y.v][j])
    ELSE /\ Len(vv.heap[x.v]) = Len(vv.heap[y.v])
         /\ \A i \in DOMAIN vv.heap[x.v] :
               DeepEqual(vv, vv.heap[x.v][i], vv.heap[y.v][i])

\* EQUAL after the two pops: a was under b.
equalItems(vv, a, b) ==
    IF a.t = "array" /\ b.t = "array" THEN a.v = b.v
    ELSE IF a.t = "map" /\ b.t = "map" THEN a.v = b.v
    ELSE DeepEqual(vv, a, b)

opEQUAL(vv) ==
    IF StackLen(vv, vv.estack) = 0 THEN Panic(vv)
    ELSE IF StackLen(vv, vv.estack) = 1 THEN Panic(Pop(vv, vv.estack))
    ELSE Done(Push(PopN(vv, vv.estack, 2), vv.estack,
                   BoolItem(equalItems(vv, Peek(vv, vv.estack, 1),
                                       Peek(vv, vv.estack, 0)))))

\* JMP: the jump is relative to the ip of the current context.
opJMP(vv, rOffset) ==
    LET ctx == Context(vv)
        offset == ctx.ip + rOffset
    IN  IF offset < 0 \/ offset > Len(ctx.prog) THEN Panic(vv)
        ELSE Done([vv EXCEPT !.istack[Len(vv.istack)].nextip = offset])

\* The deferred function of execute: r is what the switch left behind.
recover(r, ip, op) ==
    IF r.panic
    THEN [v |-> [r.v EXCEPT !.state = faultState], panic |-> FALSE,
          err |-> newError(ip, op, "panic")]
    ELSE IF r.v.size > MaxStackSize
    THEN [v |-> [r.v EXCEPT !.state = faultState], panic |-> FALSE,
          err |-> newError(ip, op, "stack is too big")]
    ELSE r

\* v.execute(v.Context(), JMP, parameter) called from CALL and CALLI: the
\* inner call has its own deferred recover, which reports ctx.ip and JMP.
executeJMP(vv, rOffset) == recover(opJMP(vv, rOffset), Context(vv).ip, "JMP")

opCALL(vv, rOffset) ==
    IF checkInvocationStackSizeFails(vv) THEN Panic(vv)
    ELSE LET newCtx == [Context(vv) EXCEPT !.rvcount = -1] IN
         executeJMP([vv EXCEPT !.istack = Append(@, newCtx)], rOffset)

\* VM.LoadScript: the new context is bound to the VM's current stacks.
LoadScript(vv, b) ==
    [vv EXCEPT !.istack = Append(@, [NewContext(b) EXCEPT !.estack = vv.estack,
                                                          !.astack = vv.astack])]

\* APPCALL and TAILCALL: the script of the hash is loaded, for TAILCALL in
\* the place of the current context.
opAPPCALL(vv, op, hash) ==
    IF op = "APPCALL" /\ checkInvocationStackSizeFails(vv) THEN Panic(vv)
    ELSE IF ~ScriptKnown(hash) THEN Panic(vv)
    ELSE IF op = "TAILCALL"
    THEN Done(LoadScript([vv EXCEPT !.istack = SubSeq(@, 1, Len(@) - 1)],
                         getScript(hash)))
    ELSE Done(LoadScript(vv, getScript(hash)))

\* Element.Bytes: a byte array is taken as it is, an integer or boolean is
\* a short string; a collection has no bytes (panic).
Bytes(it) == IF it.t = "bytes" THEN it.v ELSE 0

tailCall(op) == op \in {"CALLET", "CALLEDT"}
hashOnStack(op) == op \in {"CALLED", "CALLEDT"}

\* The end of the CALLI/CALLE handler: vv has lost the parameters, which
\* go to the new context's evaluation stack; the context is pushed (for a
\* tail call in the place of the current one) and the VM switches to its
\* stacks.
\* The loop "for i := n; i > 0; i-- { RemoveAt(i - 1); Push }" of the calls
\* and of RET: the top n items of the stack s in the order it pushes them.
\* The same loop pushing the items as RemoveAt(0) would give them.
topItemsReversed(s, n) == [i \in 1..n |-> s[Len(s) + 1 - i]]

topItems(s, n) == SubSeq(s, Len(s) - n + 1, Len(s))

enterContext(vv, newCtx, params) ==
    [vv EXCEPT !.stacks[newCtx.estack] = params,
               !.istack = Append(@, newCtx),
               !.estack = newCtx.estack, !.astack = newCtx.astack]

\* CALLI (the context is copied), CALLE and CALLET (script by the hash of
\* the instruction), CALLED and CALLEDT (script by the hash on the stack).
\* The new context gets stacks made by NewStack.  v0 is the VM after the
\* pop of the hash, arg the offset or the hash.
callInto(v0, op, rvcount, pcount, arg) ==
    IF op # "CALLI" /\ ~ScriptKnown(arg) THEN Panic(v0)
    ELSE LET base == IF op = "CALLI" THEN Context(v0) ELSE NewContext(getScript(arg))
             ne == Len(v0.stacks) + 1
             na == Len(v0.stacks) + 2
             newCtx == [base EXCEPT !.rvcount = rvcount, !.estack = ne, !.astack = na]
             old == v0.stacks[v0.estack]
             params == topItems(old, pcount)
             \* RemoveAt on the caller's stack, Push on the new one.
             moved == PopN([v0 EXCEPT !.stacks = Append(Append(@, <<>>), <<>>)],
                           v0.estack, pcount)
             popped == IF tailCall(op)
                       THEN [moved EXCEPT !.istack = SubSeq(@, 1, Len(@) - 1)]
                       ELSE moved
             entered == enterContext(popped, newCtx, params)
         IN  IF op = "CALLI" THEN executeJMP(entered, arg) ELSE Done(entered)

opCALLIE(vv, op, rvcount, pcount, arg) ==
    IF StackLen(vv, vv.estack) < pcount + (IF hashOnStack(op) THEN 1 ELSE 0)
    THEN Panic(vv)
    ELSE IF tailCall(op) /\ Context(vv).rvcount # rvcount THEN Panic(vv)
    ELSE IF ~tailCall(op) /\ checkInvocationStackSizeFails(vv) THEN Panic(vv)
    ELSE IF ~hashOnStack(op) THEN callInto(vv, op, rvcount, pcount, arg)
    ELSE IF IsColl(Peek(vv, vv.estack, 0)) THEN Panic(Pop(vv, vv.estack))
    ELSE callInto(Pop(vv, vv.estack), op, rvcount, pcount,
                  Bytes(Peek(vv, vv.estack, 0)))

(***************************************************************************)
(* Byte strings of the signature opcodes, by number.  k in 1..NumKeys is   *)
(* the encoding of the public key of pair k, InfinityKey the one-byte      *)
(* encoding of the point at infinity, SigBytes(k, n) a string of n bytes   *)
(* whose first 64 bytes, if it has them, are a signature of the checked    *)
(* hash by pair k (k = 0: by nobody; a byte-reversed signature is such a   *)
(* string), and every other number a short string that encodes no key.     *)
(***************************************************************************)
InfinityKey == 9
GoodKeys == 1..NumKeys
SigBytes(k, n) == 100 * (k + 1) + n
SigLen(b) == IF b >= 100 THEN b % 100 ELSE 1
Signer(b) == IF b >= 100 THEN (b \div 100) - 1 ELSE 0

\* PublicKey.DecodeBytes: the point decoded (0: X and Y stay nil) or an error.
DecodeBytes(b) ==
    IF b \in GoodKeys THEN [err |-> FALSE, point |-> b]
    ELSE IF b = InfinityKey THEN [err |-> FALSE, point |-> 0]
    ELSE [err |-> TRUE, point |-> 0]

\* PublicKey.Verify: signature[0:32] and signature[32:64] are sliced without
\* a check of the length.
Verify(point, signature) ==
    IF point = 0 THEN "false"
    ELSE IF SigLen(signature) < 64 THEN "panic"
    ELSE IF Signer(signature) = point THEN "true" ELSE "false"

checksigVerify(vv, keyb, signature) ==
    IF ~vv.checkhash THEN Panic(vv)
    ELSE IF DecodeBytes(keyb).err THEN Panic(vv)
    ELSE IF Verify(DecodeBytes(keyb).point, signature) = "panic" THEN Panic(vv)
    ELSE Done(Push(vv, vv.estack,
                   BoolItem(Verify(DecodeBytes(keyb).point, signature) = "true")))

checksigPopSig(vv, keyItem) ==
    IF IsColl(keyItem) \/ StackLen(vv, vv.estack) = 0 THEN Panic(vv)
    ELSE IF IsColl(Peek(vv, vv.estack, 0)) THEN Panic(Pop(vv, vv.estack))
    ELSE checksigVerify(Pop(vv, vv.estack), Bytes(keyItem), Bytes(Peek(vv, vv.estack, 0)))

opCHECKSIG(vv) ==
    IF StackLen(vv, vv.estack) = 0 THEN Panic(vv)
    ELSE checksigPopSig(Pop(vv, vv.estack), Peek(vv, vv.estack, 0))

\* Stack.popSigElements: an array of byte strings, or a count followed by
\* that many byte strings; fewer than one element is an error.
popSigElements(vv) ==
    IF StackLen(vv, vv.estack) = 0 THEN [v |-> vv, err |-> TRUE, elems |-> <<>>]
    ELSE LET item == Peek(vv, vv.estack, 0)
             rest == StackLen(vv, vv.estack) - 1
         IN  IF item.t = "array"
             THEN [v |-> Pop(vv, vv.estack),
                   err |-> Len(vv.heap[item.v]) < 1
                           \/ \E i \in DOMAIN vv.heap[item.v] : IsColl(vv.heap[item.v][i]),
                   elems |-> [i \in DOMAIN vv.heap[item.v] |-> Bytes(vv.heap[item.v][i])]]
             ELSE IF item.t \notin {"int", "bool"} \/ item.v < 1 \/ item.v > rest
             THEN [v |-> Pop(vv, vv.estack), err |-> TRUE, elems |-> <<>>]
             ELSE [v |-> PopN(vv, vv.estack, item.v + 1),
                   err |-> \E i \in 1..item.v : IsColl(Peek(vv, vv.estack, i)),
                   elems |-> [i \in 1..item.v |-> Bytes(Peek(vv, vv.estack, i))]]

\* The loop of CHECKMULTISIG: j counts keys and i counts signatures.
RECURSIVE checkmultisigLoop(_, _, _, _)
checkmultisigLoop(pkeys, sigs, i, j) ==
    IF ~(j < Len(pkeys) /\ i < Len(sigs)) THEN "true"
    ELSE IF DecodeBytes(pkeys[j + 1]).err THEN "panic"
    ELSE LET res == Verify(DecodeBytes(pkeys[j + 1]).point, sigs[i + 1])
             i2 == IF res = "true" THEN i + 1 ELSE i
         IN  IF res = "panic" THEN "panic"
             ELSE IF Len(sigs) - i2 > Len(pkeys) - (j + 1) THEN "false"
             ELSE checkmultisigLoop(pkeys, sigs, i2, j + 1)

checkmultisigVerify(vv, pkeys, sigs) ==
    IF Len(pkeys) < Len(sigs) THEN Panic(vv)
    ELSE IF ~vv.checkhash THEN Panic(vv)
    ELSE IF checkmultisigLoop(pkeys, sigs, 0, 0) = "panic" THEN Panic(vv)
    ELSE Done(Push(vv, vv.estack, BoolItem(checkmultisigLoop(pkeys, sigs, 0, 0) = "true")))

checkmultisigSigs(ks, ss) ==
    IF ss.err THEN Panic(ss.v) ELSE checkmultisigVerify(ss.v, ks.elems, ss.elems)

checkmultisigKeys(ks) ==
    IF ks.err THEN Panic(ks.v) ELSE checkmultisigSigs(ks, popSigElements(ks.v))

opCHECKMULTISIG(vv) == checkmultisigKeys(popSigElements(vv))

RECURSIVE PushAll(_, _, _, _)
PushAll(vv, sid, s, i) ==
    IF i > Len(s) THEN vv ELSE PushAll(Push(vv, sid, s[i]), sid, s, i + 1)

opRET(vv) ==
    LET oldCtx == Context(vv)
        v1 == [vv EXCEPT !.istack = SubSeq(@, 1, Len(@) - 1)]
        oldEstack == vv.estack
        oldLen == StackLen(vv, oldEstack)
    IN  IF oldCtx.rvcount > 0 /\ oldLen < oldCtx.rvcount THEN Panic(v1)
        ELSE IF Len(v1.istack) = 0 THEN Done([v1 EXCEPT !.state = haltState])
        ELSE LET newEstack == Context(v1).estack IN
             IF oldEstack = newEstack THEN Done(v1)
             ELSE LET rvcount == IF oldCtx.rvcount < 0 THEN oldLen ELSE oldCtx.rvcount
                      s == vv.stacks[oldEstack]
                      moved == topItems(s, rvcount)
                      v2 == PopN(v1, oldEstack, rvcount)
                      v3 == PushAll(v2, newEstack, moved, 1)
                  IN  Done([v3 EXCEPT !.estack = newEstack,
                                      !.astack = Context(v1).astack])

\* The switch of VM.execute.
dispatch(vv, ins) ==
    CASE ins.op \in {"PUSH1", "PUSH2"} -> opPUSH(vv, PushValue(ins.op))
      [] ins.op = "PUSHBYTES2" -> opPUSH(vv, ins.a)
      [] ins.op = "TOALTSTACK" -> opTOALTSTACK(vv)
      [] ins.op = "FROMALTSTACK" -> opFROMALTSTACK(vv)
      [] ins.op = "DUP" -> opDUP(vv)
      [] ins.op = "DUPFROMALTSTACK" -> opDUPFROMALTSTACK(vv)
      [] ins.op = "DROP" -> opDROP(vv)
      [] ins.op = "NEWARRAY" -> opNEWARRAY(vv)
      [] ins.op = "PACK" -> opPACK(vv)
      [] ins.op = "EQUAL" -> opEQUAL(vv)
      [] ins.op = "PICKITEM" -> opPICKITEM(vv)
      [] ins.op = "REVERSE" -> opREVERSE(vv)
      [] ins.op = "REMOVE" -> opREMOVE(vv)
      [] ins.op = "HASKEY" -> opHASKEY(vv)
      [] ins.op = "NEWSTRUCT" -> opNEWSTRUCT(vv)
      [] ins.op = "APPEND" -> opAPPEND(vv)
      [] ins.op = "SETITEM" -> opSETITEM(vv)
      [] ins.op = "NEWMAP" -> opNEWMAP(vv)
      [] ins.op = "KEYS" -> opKEYS(vv)
      [] ins.op = "VALUES" -> opVALUES(vv)
      [] ins.op = "JMP" -> opJMP(vv, ins.a)
      [] ins.op = "CALL" -> opCALL(vv, ins.a)
      [] ins.op \in {"APPCALL", "TAILCALL"} -> opAPPCALL(vv, ins.op, ins.a)
      [] ins.op \in {"CALLI", "CALLE", "CALLED", "CALLET", "CALLEDT"} ->
            opCALLIE(vv, ins.op, ins.a, ins.b, ins.c)
      [] ins.op = "RET" -> opRET(vv)
      [] ins.op = "CHECKSIG" -> opCHECKSIG(vv)
      [] ins.op = "CHECKMULTISIG" -> opCHECKMULTISIG(vv)
      [] ins.op = "NOP" -> Done(vv)
      [] OTHER -> Panic(vv)   \* THROW, unknown opcode

\* VM.execute with its deferred recover; ip is ctx.ip of the context the
\* instruction was fetched from.  Yields the VM and the error returned.
execute(vv, ip, ins) == recover(dispatch(vv, ins), ip, ins.op)

(***************************************************************************)
(* The stepping primitives as functions of the VM.  Each yields the VM     *)
(* after the call, the error returned, whether a panic escaped to the      *)
(* caller, and the instruction that was fetched (ran = FALSE when none).   *)
(***************************************************************************)
Outcome(vv, err, escaped, ran, ip, op) ==
    [v |-> vv, err |-> err, escaped |-> escaped, ran |-> ran, ip |-> ip, op |-> op]

NoInstr(vv, err) == Outcome(vv, err, FALSE, FALSE, -1, "")

Executed(r, ip, op) == Outcome(r.v, r.err, FALSE, TRUE, ip, op)

\* ctx.Next() followed by v.execute(ctx, op, param), as in Step and StepInto.
fetchAndExecute(vv) ==
    LET n == Next(Context(vv))
        v1 == [vv EXCEPT !.istack[Len(vv.istack)] = n.c]
    IN  IF n.err
        THEN Outcome([v1 EXCEPT !.state = faultState],
                     newError(n.c.ip, n.ins.op, "fetch"), FALSE, TRUE, n.c.ip, n.ins.op)
        ELSE Executed(execute(v1, n.c.ip, n.ins), n.c.ip, n.ins.op)

\* VM.Step: Context() is nil without a context, and ctx.Next() on the nil
\* context dereferences it outside of any recover.
Step(vv) ==
    IF ~Ready(vv) THEN Outcome(vv, NoErr, TRUE, FALSE, -1, "")
    ELSE fetchAndExecute(vv)

\* The end of StepInto: r is the outcome of the instruction.
breakIfAt(r) ==
    IF r.err # NoErr THEN r
    ELSE IF Ready(r.v) /\ atBreakPoint(Context(r.v))
    THEN [r EXCEPT !.v.state = breakState]
    ELSE r

\* VM.StepInto.
StepInto(vv) ==
    LET v0 == IF ~Ready(vv) THEN [vv EXCEPT !.state = @ \cup haltState] ELSE vv IN
    IF HasStopped(v0) THEN NoInstr(v0, NoErr)
    ELSE breakIfAt(fetchAndExecute(v0))

(***************************************************************************)
(* The VM object after New().                                              *)
(***************************************************************************)
New ==
    [state |-> haltState, istack |-> <<>>, estack |-> 1, astack |-> 2,
     size |-> 0, itemCount |-> <<>>, heap |-> <<>>, keys |-> <<>>,
     stacks |-> << <<>>, <<>> >>,
     checkhash |-> FALSE]

\* VM.Load on a VM whose stacks are empty.
Load(vv, prog) == LoadScript([vv EXCEPT !.istack = <<>>, !.state = noneState], prog)

NoCall == [fn |-> "none", expSize |-> 0, err |-> NoErr]
NoExec == [live |-> FALSE, ip |-> -1, op |-> "", err |-> NoErr]
Returned(fn, err, escaped) == [fn |-> fn, err |-> err, escaped |-> escaped]
NoReturn == Returned("", NoErr, FALSE)
errorsNew(msg) == [ip |-> -1, op |-> "", msg |-> msg]

ExecOf(r) == IF r.ran THEN [live |-> TRUE, ip |-> r.ip, op |-> r.op, err |-> r.err]
             ELSE NoExec

(***************************************************************************)
(* Scripts the model loads.                                                *)
(***************************************************************************)
Alphabet ==
    { I0("PUSH1"), BigPush, I0("NEWARRAY"), I0("DROP"), I0("DUP"),
      I0("TOALTSTACK"), I0("FROMALTSTACK"), I0("PACK"), I0("RET"), I0("NOP"),
      I0("THROW"), I1("PUSHDATA1", -1),
      I1("JMP", 0), I1("JMP", 2), I1("JMP", 3),
      I1("CALL", 1), I1("CALL", -2), I1("CALL", 3),
      Ins("CALLI", 0, 1, 1), Ins("CALLI", 1, 0, 5),
      Ins("CALLE", 0, 0, 1), Ins("CALLE", 1, 1, 2), Ins("CALLE", 2, 0, 2),
      Ins("CALLE", 0, 1, 3), Ins("CALLE", 0, 0, 0) }

RECURSIVE SeqsUpTo(_, _)
SeqsUpTo(S, n) ==
    IF n = 0 THEN {<<>>}
    ELSE LET shorter == SeqsUpTo(S, n - 1) IN
         shorter \cup {Append(p, x) : p \in {q \in shorter : Len(q) = n - 1}, x \in S}

Catalog ==
    { <<BigPush, I0("NEWARRAY"), BigPush, I0("NEWARRAY"), I0("DROP")>>,
      <<BigPush, I0("NEWARRAY"), Ins("CALLE", 0, 0, 1), I0("DROP")>>,
      <<BigPush, I0("NEWARRAY"), I0("DUP"), I0("PUSH2"), I0("PACK"),
        I0("TOALTSTACK"), BigPush, I0("NEWARRAY"), I0("DROP")>>,
      <<I0("PUSH1"), I0("PUSH2"), Ins("CALLI", 1, 2, 2), I0("RET"), I0("DROP")>> }

Programs == SeqsUpTo(Alphabet, MaxProgLen) \cup Catalog

(***************************************************************************)
(* VM.Run.  The part before the loop and one turn of the loop; each yields *)
(* the VM, whether Run returns here, the error, and the instruction run.   *)
(***************************************************************************)
RunResult(vv, done, err, r) ==
    [v |-> vv, done |-> done, err |-> err, escaped |-> r.escaped, x |-> ExecOf(r)]

Quiet(vv) == NoInstr(vv, NoErr)

\* Run without the check of the fault flag.
RunEntryIgnoringFault(vv) ==
    IF ~Ready(vv)
    THEN RunResult([vv EXCEPT !.state = faultState], TRUE,
                   errorsNew("no program loaded"), Quiet(vv))
    ELSE RunResult([vv EXCEPT !.state = noneState], FALSE, NoErr, Quiet(vv))

RunEntry(vv) ==
    IF ~Ready(vv)
    THEN RunResult([vv EXCEPT !.state = faultState], TRUE,
                   errorsNew("no program loaded"), Quiet(vv))
    ELSE IF HasFlag(vv.state, faultState)
    THEN RunResult(vv, TRUE, errorsNew("VM has failed"), Quiet(vv))
    ELSE RunResult([vv EXCEPT !.state = noneState], FALSE, NoErr, Quiet(vv))

\* After Step in the loop of Run: an error is returned, else the loop goes on.
Stepped(r) == RunResult(r.v, r.escaped \/ r.err # NoErr, r.err, r)

\* One turn of the for loop of Run.  A state without the fault, halt and
\* break flags is noneState, so the default case of the switch is dead.
RunTurn(vv) ==
    LET v1 == IF Ready(vv) /\ atBreakPoint(Context(vv))
              THEN [vv EXCEPT !.state = @ \cup breakState] ELSE vv
    IN  IF HasFlag(v1.state, faultState)
        THEN RunResult(v1, TRUE, errorsNew("VM has failed"), Quiet(v1))
        ELSE IF HasFlag(v1.state, haltState) \/ HasFlag(v1.state, breakState)
        THEN RunResult(v1, TRUE, NoErr, Quiet(v1))
        ELSE Stepped(Step(v1))

\* The state change at the start of StepOut and StepOver.
toggleBreak(vv) ==
    IF vv.state = breakState THEN [vv EXCEPT !.state = noneState]
    ELSE [vv EXCEPT !.state = breakState]

\* One turn of the loop of StepOver: StepInto, then the loop condition and,
\* when the loop ends, the statements after it.
afterStepInto(r, expSize) ==
    LET again == r.v.state = noneState /\ Len(r.v.istack) > expSize
        v1 == IF ~again /\ r.v.state = noneState
              THEN [r.v EXCEPT !.state = breakState] ELSE r.v
    IN  RunResult(v1, ~again, r.err, r)

StepOverTurn(vv, expSize) == afterStepInto(StepInto(vv), expSize)

StepOutContinues(vv, expSize) ==
    vv.state = noneState /\ Len(vv.istack) >= expSize

(***************************************************************************)
(* Actions of the VM: the calls of its user.  While Run, StepOver or       *)
(* StepOut is in its loop (call.fn says which) only that loop proceeds.    *)
(***************************************************************************)
Idle == call.fn = "none"

InitVM ==
    /\ v = New
    /\ call = NoCall
    /\ ret = NoReturn
    /\ exec = NoExec
    /\ loaded = FALSE

DoLoad ==
    /\ Idle /\ ~loaded
    /\ \E prog \in Programs : v' = Load(v, prog)
    /\ loaded' = TRUE
    /\ exec' = NoExec
    /\ UNCHANGED <<call, ret, notVM>>

DoLoadScript ==
    /\ Idle /\ ~loaded
    /\ \E prog \in Programs : v' = LoadScript(v, prog)
    /\ loaded' = TRUE
    /\ exec' = NoExec
    /\ UNCHANGED <<call, ret, notVM>>

DoAddBreakPoint ==
    /\ Idle /\ Ready(v)
    /\ Cardinality(Context(v).bps) < MaxBreakPoints
    /\ \E n \in 0..Len(Context(v).prog) :
          /\ n \notin Context(v).bps
          /\ v' = [v EXCEPT !.istack[Len(v.istack)].bps = @ \cup {n}]
    /\ exec' = NoExec
    /\ UNCHANGED <<call, ret, loaded, notVM>>

Finish(fn, r) ==
    /\ v' = r.v
    /\ exec' = r.x
    /\ IF r.done
       THEN call' = NoCall /\ ret' = Returned(fn, r.err, r.escaped)
       ELSE call' = [call EXCEPT !.fn = fn] /\ ret' = ret
    /\ UNCHANGED <<loaded, notVM>>

\* A call that runs one primitive and returns.
Single(r) == RunResult(r.v, TRUE, r.err, r)

DoRun == Idle /\ Finish("Run", RunEntry(v))

RunLoop == call.fn = "Run" /\ Finish("Run", RunTurn(v))

DoStep ==
    /\ Idle
    /\ Finish("Step", Single(Step(v)))

DoStepInto ==
    /\ Idle
    /\ Finish("StepInto", Single(StepInto(v)))

DoStepOver ==
    /\ Idle
    /\ IF HasStopped(v)
       THEN /\ ret' = Returned("StepOver", NoErr, FALSE)
            /\ UNCHANGED <<v, call>>
       ELSE /\ v' = toggleBreak(v)
            /\ call' = [fn |-> "StepOver", expSize |-> Len(v.istack), err |-> NoErr]
            /\ ret' = ret
    /\ exec' = NoExec
    /\ UNCHANGED <<loaded, notVM>>

StepOverLoop == call.fn = "StepOver" /\ Finish("StepOver", StepOverTurn(v, call.expSize))

DoStepOut ==
    /\ Idle
    /\ v' = toggleBreak(v)
    /\ call' = [fn |-> "StepOut", expSize |-> Len(v.istack), err |-> NoErr]
    /\ exec' = NoExec
    /\ UNCHANGED <<ret, loaded, notVM>>

StepOutTurn(r) ==
    /\ v' = r.v
    /\ exec' = ExecOf(r)
    /\ call' = [call EXCEPT !.err = r.err]
    /\ ret' = ret

StepOutLoop ==
    /\ call.fn = "StepOut"
    /\ IF StepOutContinues(v, call.expSize)
       THEN StepOutTurn(StepInto(v))
       ELSE /\ ret' = Returned("StepOut", call.err, FALSE)
            /\ call' = NoCall
            /\ exec' = NoExec
            /\ v' = v
    /\ UNCHANGED <<loaded, notVM>>

NextVM ==
    \/ DoLoad
    \/ DoLoadScript
    \/ DoAddBreakPoint
    \/ DoRun
    \/ RunLoop
    \/ DoStep
    \/ DoStepInto
    \/ DoStepOver
    \/ StepOverLoop
    \/ DoStepOut
    \/ StepOutLoop

(***************************************************************************)
(* Collection instructions on prepared operands, as the tests set them up: *)
(* a script is loaded and the operands are pushed on the evaluation stack. *)
(* The one prepared collection is object 1, of CollSizes elements 0, 1,    *)
(* ... (a map has the same keys); the stack refers to it or holds numbers. *)
(***************************************************************************)
MaxCollProg == 2

CollSizes == {0, MaxArraySize - 1, MaxArraySize}
CollKinds == {"array", "struct", "map"}

CollAlphabet ==
    { I0("NEWARRAY"), I0("NEWSTRUCT"), I0("APPEND"), I0("PACK"), I0("SETITEM"),
      I0("KEYS"), I0("VALUES") }

CollPrograms ==
    (SeqsUpTo(CollAlphabet, MaxCollProg) \ {<<>>})
       \cup { <<I0("APPEND"), I0("PUSH1"), I0("APPEND")>>,
              <<I0("SETITEM"), I0("PUSH1"), I0("PUSH2"), I0("SETITEM")>>,
              <<I0("NEWMAP"), I0("PUSH1"), I0("PUSH2"), I0("SETITEM")>> }

Fill(n) == [i \in 1..n |-> IntItem(i - 1)]

\* The stacks that refer to the prepared collection.
StacksOn(x) ==
    { <<x>>, <<x, x, IntItem(7)>>, <<x, x, IntItem(0), IntItem(9)>>,
      <<x, x, IntItem(MaxArraySize), IntItem(9)>> }

\* The stacks of numbers: an element count, or the items to pack and
\* their count.
Counts ==
    { <<IntItem(0)>>, <<IntItem(2)>>, <<IntItem(MaxArraySize)>>,
      <<IntItem(MaxArraySize + 1)>>, <<WideItem(1, 2)>>,
      <<IntItem(1), IntItem(1), IntItem(2)>>,
      <<IntItem(1), IntItem(1), WideItem(1, 2)>>,
      Append(Repeat(IntItem(1), MaxArraySize + 1), IntItem(MaxArraySize + 1)) }

Prepared(prog, kind, n, stack) ==
    LET x == [t |-> kind, v |-> 1]
        refs == Cardinality({i \in DOMAIN stack : stack[i] = x})
    IN  [Load(New, prog) EXCEPT
            !.heap = <<Fill(n)>>,
            !.keys = << IF kind = "map" THEN Fill(n) ELSE <<>> >>,
            !.itemCount = <<refs>>,
            !.stacks[1] = stack,
            !.size = Len(stack) + (IF refs > 0 THEN n ELSE 0)]

InitColl ==
    /\ \E prog \in CollPrograms :
          \/ \E kind \in CollKinds, n \in CollSizes :
                \E stack \in StacksOn([t |-> kind, v |-> 1]) :
                   v = Prepared(prog, kind, n, stack)
          \/ \E stack \in Counts : v = Prepared(prog, "array", 0, stack)
    /\ call = NoCall
    /\ ret = NoReturn
    /\ exec = NoExec
    /\ loaded = TRUE

NextColl == DoStepInto

(***************************************************************************)
(* EQUAL on prepared operands.  The heap holds two arrays, two structs and *)
(* two maps of equal contents, and two structs that hold the two arrays.   *)
(***************************************************************************)
Ref(kind, id) == [t |-> kind, v |-> id]

EqHeap ==
    << <<IntItem(1)>>, <<IntItem(1)>>, <<IntItem(1)>>, <<IntItem(1)>>,
       <<IntItem(2)>>, <<IntItem(2)>>, <<Ref("array", 1)>>, <<Ref("array", 2)>> >>

EqKeys ==
    << <<>>, <<>>, <<>>, <<>>, <<IntItem(1)>>, <<IntItem(1)>>, <<>>, <<>> >>

EqItems ==
    { IntItem(0), ZeroOfSub, IntItem(1), BytesItem(1), BoolItem(TRUE),
      Ref("array", 1), Ref("array", 2), Ref("struct", 3), Ref("struct", 4),
      Ref("map", 5), Ref("map", 6), Ref("struct", 7), Ref("struct", 8) }

EqStacks == {<<>>} \cup {<<a>> : a \in EqItems} \cup {<<a, b>> : a, b \in EqItems}

EqPrograms == { <<I0("EQUAL")>>, <<I0("DUP"), I0("EQUAL")>> }

\* A loaded script, a heap and the operands pushed.
WithHeap(prog, heap, keys, stack) ==
    PushAll([Load(New, prog) EXCEPT !.heap = heap, !.keys = keys,
                                    !.itemCount = [i \in DOMAIN heap |-> 0]],
            1, stack, 1)

InitEqual ==
    /\ \E prog \in EqPrograms, stack \in EqStacks :
          v = WithHeap(prog, EqHeap, EqKeys, stack)
    /\ call = NoCall
    /\ ret = NoReturn
    /\ exec = NoExec
    /\ loaded = TRUE

NextEqual == DoStepInto

(***************************************************************************)
(* APPEND of a value to a collection, then a change of an object in place. *)
(* The stack holds, from the bottom: the collection, the value, the object *)
(* to change with the operands of the change, the collection, the value.   *)
(***************************************************************************)
CloneHeap ==
    << <<IntItem(7)>>, <<>>, <<IntItem(1), IntItem(2)>>,
       <<Ref("struct", 5), Ref("array", 6)>>, <<IntItem(3), IntItem(4)>>,
       <<IntItem(5), IntItem(6)>>, <<IntItem(9)>> >>

CloneKeys == << <<>>, <<>>, <<>>, <<>>, <<>>, <<>>, <<IntItem(1)>> >>

CloneTargets == { Ref("array", 1), Ref("struct", 2) }

CloneChanged ==
    { Ref("struct", 3), Ref("struct", 4), Ref("struct", 5), Ref("array", 6),
      Ref("map", 7) }

CloneValues == CloneChanged \cup { IntItem(1) }

CloneIndexes == { IntItem(0), IntItem(1) }

\* The second instruction and its operands above the object it changes.
CloneChanges ==
    { [op |-> "APPEND", args |-> <<IntItem(8)>>], [op |-> "REVERSE", args |-> <<>>] }
    \cup { [op |-> "SETITEM", args |-> <<k, IntItem(8)>>] : k \in CloneIndexes }
    \cup { [op |-> "REMOVE", args |-> <<k>>] : k \in CloneIndexes }

InitClone ==
    /\ \E c \in CloneTargets, s \in CloneValues, m \in CloneChanged,
          ch \in CloneChanges :
          v = WithHeap(<<I0("APPEND"), I0(ch.op)>>, CloneHeap, CloneKeys,
                       <<c, s, m>> \o ch.args \o <<c, s>>)
    /\ call = NoCall
    /\ ret = NoReturn
    /\ exec = NoExec
    /\ loaded = TRUE

NextClone == DoStepInto

(***************************************************************************)
(* NEWARRAY and NEWSTRUCT, then a change of one of the two collections (as *)
(* testNEWARRAYIssue437 and testREVERSEIssue437 do).  The stack holds the  *)
(* operand twice; the new collection stays on the stack when it is the one *)
(* to change and goes to the alt stack when the operand is.                *)
(***************************************************************************)
ConvHeap ==
    << <<IntItem(1), IntItem(2), IntItem(3)>>, <<IntItem(4), IntItem(5), IntItem(6)>>,
       <<IntItem(9)>> >>

ConvKeys == << <<>>, <<>>, <<IntItem(1)>> >>

ConvOperands ==
    { Ref("array", 1), Ref("struct", 2), Ref("map", 3), IntItem(0), IntItem(2),
      BoolItem(TRUE), BytesItem(3), IntItem(MaxArraySize), IntItem(MaxArraySize + 1),
      IntItem(-1) }

ConvChanges ==
    { <<I0("DUP"), I0("PUSH2"), I0("APPEND")>>, <<I0("DUP"), I0("PUSH1"), I0("REMOVE")>>,
      <<I0("DUP"), I0("REVERSE")>> }

ConvPrograms ==
    { <<I0(new)>> \o keep \o ch :
         new \in {"NEWARRAY", "NEWSTRUCT"}, keep \in {<<>>, <<I0("TOALTSTACK")>>},
         ch \in ConvChanges }

InitConv ==
    /\ \E prog \in ConvPrograms, x \in ConvOperands :
          v = WithHeap(prog, ConvHeap, ConvKeys, <<x, x>>)
    /\ call = NoCall
    /\ ret = NoReturn
    /\ exec = NoExec
    /\ loaded = TRUE

NextConv == DoStepInto

(***************************************************************************)
(* PICKITEM and SETITEM on byte arrays, an array and a map.  The stack     *)
(* holds the object and the key (as TestPICKITEMByteArray) or the object   *)
(* twice, the key and the item (as TestSETITEMMap).                        *)
(***************************************************************************)
\* The integer of a byte array, little-endian (the last byte below 128).
RECURSIVE LittleEndian(_)
LittleEndian(bs) ==
    IF bs = <<>> THEN 0 ELSE bs[1] + 256 * LittleEndian(Tail(bs))

BytesOf(bs) == ByteArray(bs, LittleEndian(bs))

ByteArrays == { <<>>, <<1>>, <<1, 2>>, <<0, 1>>, <<255, 7, 3>> }

IndexHeap == << <<IntItem(3)>>, <<IntItem(1), IntItem(2)>> >>
IndexKeys == << <<IntItem(5)>>, <<>> >>

IndexObjects ==
    { BytesOf(bs) : bs \in ByteArrays }
    \cup { Ref("map", 1), Ref("array", 2), BoolItem(TRUE), IntItem(7) }

IndexKeyItems == { IntItem(i) : i \in -1..3 } \cup { IntItem(5), BytesOf(<<1>>) }

IndexNewItems == { IntItem(9), BytesOf(<<0, 1>>) }

IndexStacks ==
    {<<>>} \cup { <<k>> : k \in IndexKeyItems }
    \cup { <<o, k>> : o \in IndexObjects, k \in IndexKeyItems }
    \cup { <<o, o, k, x>> : o \in IndexObjects, k \in IndexKeyItems, x \in IndexNewItems }

IndexPrograms == { <<I0("PICKITEM")>>, <<I0("SETITEM"), I0("PICKITEM")>> }

InitIndex ==
    /\ \E prog \in IndexPrograms, stack \in IndexStacks :
          v = WithHeap(prog, IndexHeap, IndexKeys, stack)
    /\ call = NoCall
    /\ ret = NoReturn
    /\ exec = NoExec
    /\ loaded = TRUE

NextIndex == DoStepInto

(***************************************************************************)
(* SETITEM, PICKITEM, HASKEY and REMOVE with keys of every type, alone or  *)
(* after a SETITEM on the same object.                                     *)
(***************************************************************************)
KeyHeap == << <<IntItem(9)>>, <<IntItem(1), IntItem(2)>>, <<IntItem(3)>>, <<>> >>
KeyKeys == << <<IntItem(1)>>, <<>>, <<>>, <<>> >>

KeyObjects == { Ref("map", 1), Ref("array", 2), Ref("struct", 3), IntItem(5) }

KeyItems ==
    { IntItem(0), IntItem(1), IntItem(7), Ref("array", 2), Ref("struct", 3),
      Ref("map", 1), Ref("map", 4) }

KeyNewItems == { IntItem(8), Ref("array", 2) }

KeyOps == { "SETITEM", "PICKITEM", "HASKEY", "REMOVE" }

\* The operands of an instruction, the item of SETITEM on top.
KeyOperands(op, obj, key, item) ==
    IF op = "SETITEM" THEN <<obj, key, item>> ELSE <<obj, key>>

InitKey ==
    /\ \E op \in KeyOps, obj \in KeyObjects, key \in KeyItems, item \in KeyNewItems :
          \/ v = WithHeap(<<I0(op)>>, KeyHeap, KeyKeys, KeyOperands(op, obj, key, item))
          \/ \E first \in KeyItems :
                v = WithHeap(<<I0("SETITEM"), I0(op)>>, KeyHeap, KeyKeys,
                             KeyOperands(op, obj, key, item)
                                \o <<obj, first, IntItem(8)>>)
    /\ call = NoCall
    /\ ret = NoReturn
    /\ exec = NoExec
    /\ loaded = TRUE

NextKey == DoStepInto

(***************************************************************************)
(* Scripts of the instructions that move and build items, stepped from a   *)
(* VM that has just loaded them: every script of up to MaxCountProg        *)
(* instructions, the script of TestStackLimit, and scripts that replace a  *)
(* value of a map and remove a key a map does not have.                    *)
(***************************************************************************)
MaxCountProg == 3

CountAlphabet ==
    { I0("PUSH1"), I0("PUSH2"), I0("DUP"), I0("TOALTSTACK"),
      I0("DUPFROMALTSTACK"), I0("NEWARRAY"), I0("NEWSTRUCT"), I0("NEWMAP"),
      I0("APPEND"), I0("SETITEM"), I0("REMOVE"), I0("DROP") }

Script(ops) == [i \in DOMAIN ops |-> I0(ops[i])]

StackLimitScript ==
    Script(<<"PUSH2", "NEWARRAY", "TOALTSTACK", "DUPFROMALTSTACK", "NEWSTRUCT",
             "NEWMAP", "DUP", "PUSH2", "DUPFROMALTSTACK", "SETITEM",
             "DUP", "PUSH2", "DUPFROMALTSTACK", "SETITEM",
             "DUP", "PUSH2", "REMOVE", "DROP">>)

CountCatalog ==
    { StackLimitScript,
      Script(<<"NEWMAP", "DUP", "DUP", "PUSH1", "PUSH2", "NEWARRAY", "SETITEM",
               "PUSH1", "PUSH1", "SETITEM">>),
      Script(<<"NEWMAP", "DUP", "DUP", "PUSH1", "PUSH1", "SETITEM",
               "PUSH1", "PUSH2", "NEWARRAY", "SETITEM">>),
      Script(<<"NEWMAP", "DUP", "PUSH1", "REMOVE">>),
      Script(<<"NEWMAP", "DUP", "DUP", "PUSH1", "PUSH2", "SETITEM",
               "PUSH1", "REMOVE", "DROP">>),
      Script(<<"PUSH2", "NEWARRAY", "DUP", "DUP", "PUSH1", "PUSH2", "NEWSTRUCT",
               "SETITEM", "PUSH1", "REMOVE">>),
      Script(<<"PUSH1", "NEWARRAY", "DUP", "DUP", "APPEND", "DROP">>) }

CountPrograms == (SeqsUpTo(CountAlphabet, MaxCountProg) \ {<<>>}) \cup CountCatalog

InitCount ==
    /\ \E prog \in CountPrograms : v = Load(New, prog)
    /\ call = NoCall
    /\ ret = NoReturn
    /\ exec = NoExec
    /\ loaded = TRUE

NextCount == DoStep

(***************************************************************************)
(* Calls with parameters and return values: one call instruction with a    *)
(* return count and a parameter count, on a stack of distinct items with   *)
(* or without a script hash on top.  The callee returns at once, drops or  *)
(* pushes an item first (CALLI), or is a script of the getter.             *)
(***************************************************************************)
MaxParams == 3

ParamCalls ==
    {Ins(op, rv, pc, arg) : op \in {"CALLE", "CALLED"}, rv \in 0..MaxParams,
                            pc \in 0..MaxParams, arg \in {2, 3}}

ParamPrograms ==
    { <<Ins("CALLI", rv, pc, 1), I0("RET")>> : rv, pc \in 0..MaxParams }
       \cup { <<Ins("CALLI", rv, pc, 2), I0("RET"), I0("DROP")>> : rv, pc \in 0..MaxParams }
       \cup { <<Ins("CALLI", rv, pc, 2), I0("RET"), I0("PUSH1")>> : rv, pc \in 0..MaxParams }
       \cup { <<c, I0("NOP")>> : c \in ParamCalls }

ParamItems == <<IntItem(11), IntItem(12), IntItem(13)>>

ParamStacks ==
    {SubSeq(ParamItems, 1, n) \o top :
        n \in 0..MaxParams, top \in {<<>>, <<BytesItem(2)>>, <<BytesItem(3)>>}}

InitParams ==
    /\ \E prog \in ParamPrograms, stack \in ParamStacks :
          v = WithHeap(prog, <<>>, <<>>, stack)
    /\ call = NoCall
    /\ ret = NoReturn
    /\ exec = NoExec
    /\ loaded = TRUE

NextParams == DoStepInto

(***************************************************************************)
(* Calls at a given depth of the invocation stack.  A script with a        *)
(* counter (callNTimes of the tests) brings the VM to any depth up to the  *)
(* limit and then enters another script; the scripts here have no counter, *)
(* so the VM starts at the depth.  The contexts below the current one are  *)
(* those of a script that called itself with CALL; the current one is the  *)
(* context APPCALL makes for the script <<ins>> (rvcount -1, the stacks of *)
(* the VM), or the one CALLE makes with rvcount 0 (stacks of its own,      *)
(* which hold the operands).                                               *)
(***************************************************************************)
CallDepths == {1, MaxInvocationStackSize - 1, MaxInvocationStackSize}

CallInstrs ==
    { I1("CALL", 0), I1("APPCALL", 2), I1("APPCALL", 0),
      I1("TAILCALL", 2), I1("TAILCALL", 4), I1("TAILCALL", 0),
      Ins("CALLI", 0, 0, 0), Ins("CALLI", 0, 1, 0), Ins("CALLE", 0, 1, 2),
      Ins("CALLED", 0, 1, 0), Ins("CALLET", 0, 0, 2), Ins("CALLET", 0, 1, 2),
      Ins("CALLET", 0, 0, 0), Ins("CALLEDT", 0, 1, 0) }

CallOperands == { <<>>, <<BytesItem(2)>>, <<IntItem(1), BytesItem(2)>> }

Recursion == <<I1("CALL", 0)>>

AtDepth(n, ins, own, operands) ==
    LET below == [i \in 1..(n - 1) |->
                     [NewContext(Recursion) EXCEPT !.nextip = 1, !.estack = 1,
                                                   !.astack = 2]]
        top == [NewContext(<<ins>>) EXCEPT
                   !.rvcount = IF own THEN 0 ELSE -1,
                   !.estack = IF own THEN 3 ELSE 1, !.astack = IF own THEN 4 ELSE 2]
        base == [New EXCEPT !.state = noneState,
                            !.istack = Append(below, top),
                            !.stacks = IF own THEN << <<>>, <<>>, <<>>, <<>> >> ELSE @,
                            !.estack = top.estack, !.astack = top.astack]
    IN  PushAll(base, top.estack, operands, 1)

InitCall ==
    /\ \E n \in CallDepths, ins \in CallInstrs, own \in BOOLEAN,
          operands \in CallOperands : v = AtDepth(n, ins, own, operands)
    /\ call = NoCall
    /\ ret = NoReturn
    /\ exec = NoExec
    /\ loaded = TRUE

NextCall ==
    \/ DoStep
    \/ DoStepInto

(***************************************************************************)
(* Signature checks: a VM is made as the tests of the opcodes make it      *)
(* (New, LoadScript of the one opcode, the operands pushed: CHECKSIG takes *)
(* the signature and the key, CHECKMULTISIG an array of signatures and an  *)
(* array of keys), SetCheckedHash may be called, then Run.                 *)
(***************************************************************************)
SigStrings ==
    {SigBytes(k, 64) : k \in 0..NumKeys} \cup {SigBytes(1, 65), SigBytes(0, 63), 0}

KeyStrings == GoodKeys \cup {InfinityKey, 0}

BytesItems(codes) == [i \in DOMAIN codes |-> BytesItem(codes[i])]

\* estack.PushVal of an array of byte strings (nothing for no strings).
pushArray(vv, codes) ==
    IF codes = <<>> THEN vv ELSE pushNewest(NewObject(vv, BytesItems(codes))).v

SigSetup(in) ==
    IF in.op = "CHECKSIG"
    THEN PushAll(PushAll(LoadScript(New, <<I0(in.op)>>), 1, BytesItems(in.sigs), 1),
                 1, BytesItems(in.keys), 1)
    ELSE pushArray(pushArray(LoadScript(New, <<I0(in.op)>>), in.sigs), in.keys)

SigInputs ==
    [op : {"CHECKSIG"}, sigs : SeqsUpTo(SigStrings, 1), keys : SeqsUpTo(KeyStrings, 1)]
    \cup [op : {"CHECKMULTISIG"}, sigs : SeqsUpTo(SigStrings, MaxSigs),
                                  keys : SeqsUpTo(KeyStrings, MaxKeys)]

NoSigInput == [op |-> "", sigs |-> <<>>, keys |-> <<>>]
NotRun == [done |-> FALSE, err |-> NoErr]

\* Run from its call to its return.
RECURSIVE runLoop(_)
runLoop(r) == IF r.done THEN r ELSE runLoop(RunTurn(r.v))

Run(vv) == runLoop(RunEntry(vv))

InitSig ==
    /\ sigin \in SigInputs
    /\ sigvm = SigSetup(sigin)
    /\ sigret = NotRun

SetCheckedHash ==
    /\ ~sigret.done /\ ~sigvm.checkhash
    /\ sigvm' = [sigvm EXCEPT !.checkhash = TRUE]
    /\ UNCHANGED <<sigin, sigret, notSig>>

ran(r) ==
    /\ sigvm' = r.v
    /\ sigret' = [done |-> TRUE, err |-> r.err]

runVM ==
    /\ ~sigret.done
    /\ ran(Run(sigvm))
    /\ UNCHANGED <<sigin, notSig>>

NextSig == SetCheckedHash \/ runVM

(***************************************************************************)
(* The network server: connections, the handshake and the dispatch of      *)
(* messages.  A connection is served by handleConn: it hands the new peer  *)
(* to the server loop over the register channel, then gives every message  *)
(* read to handleMessage until one fails, and hands the peer over the      *)
(* unregister channel.  Both channels are unbuffered.                      *)
(***************************************************************************)
PeerIds == 1..NumPeers
Nonces == 1..NumNonces
\* Server.id
ServerId == 1

Commands ==
    {"version", "verack", "addr", "getaddr", "getdata", "headers", "inv", "block", "tx"}

\* magic: Magic = s.Net; valid: an inventory payload has a valid type and hashes.
Messages == [cmd : Commands, magic : BOOLEAN, nonce : Nonces, valid : BOOLEAN]

\* TCPPeer: the handshake stages done, the version received, the address.
NewTCPPeer ==
    [stage |-> "idle", handShake |-> {}, nonce |-> 0, addr |-> 0, started |-> FALSE]

handShakeStages == {"versionSent", "versionReceived", "verAckSent", "verAckReceived"}

Handshaked(p) == p.handShake = handShakeStages

PeerResult(p, err) == [peer |-> p, err |-> err]

SendVersion(p) ==
    IF "versionSent" \in p.handShake THEN PeerResult(p, TRUE)
    ELSE PeerResult([p EXCEPT !.handShake = @ \cup {"versionSent"}], FALSE)

HandleVersion(p, version) ==
    IF "versionReceived" \in p.handShake THEN PeerResult(p, TRUE)
    ELSE PeerResult([p EXCEPT !.nonce = version.nonce,
                              !.handShake = @ \cup {"versionReceived"}], FALSE)

SendVersionAck(p) ==
    IF "versionReceived" \notin p.handShake \/ "versionSent" \notin p.handShake
       \/ "verAckSent" \in p.handShake
    THEN PeerResult(p, TRUE)
    ELSE PeerResult([p EXCEPT !.handShake = @ \cup {"verAckSent"}], FALSE)

HandleVersionAck(p) ==
    IF "versionSent" \notin p.handShake \/ "versionReceived" \notin p.handShake
       \/ "verAckReceived" \in p.handShake
    THEN PeerResult(p, TRUE)
    ELSE PeerResult([p EXCEPT !.handShake = @ \cup {"verAckReceived"}], FALSE)

\* The outcome of a handler: the peer after it, the error, and what it did
\* to the rest of the node.
Handled(p, err, did) == [peer |-> p, err |-> err, did |-> did]

\* handleVersionCmd after HandleVersion: hv is its result; registry is the
\* set of the peers of s.peers.
checkVersion(hv, registry, version) ==
    IF hv.err THEN Handled(hv.peer, TRUE, {})
    ELSE IF ServerId = version.nonce THEN Handled(hv.peer, TRUE, {})
    ELSE IF \E peer \in registry :
                /\ Handshaked(peer)
                /\ peer.addr = hv.peer.addr
                /\ peer.nonce = version.nonce
    THEN Handled(hv.peer, TRUE, {})
    ELSE Handled(SendVersionAck(hv.peer).peer, SendVersionAck(hv.peer).err, {})

handleVersionCmd(p, registry, version) ==
    checkVersion(HandleVersion(p, version), registry, version)

\* The verack case of handleMessage; ack is the result of HandleVersionAck.
startOnAck(ack) ==
    IF ack.err THEN Handled(ack.peer, TRUE, {})
    ELSE Handled([ack.peer EXCEPT !.started = TRUE], FALSE, {"startProtocol"})

\* handleMessage that serves every command whatever the handshake stage.
handleMessageAnyStage(p, registry, msg) ==
    IF ~msg.magic THEN Handled(p, TRUE, {})
    ELSE CASE msg.cmd = "addr" -> Handled(p, FALSE, {"BackFill"})
           [] msg.cmd = "headers" -> Handled(p, FALSE, {"AddHeaders"})
           [] msg.cmd = "block" -> Handled(p, FALSE, {"putBlock"})
           [] msg.cmd = "version" -> handleVersionCmd(p, registry, msg)
           [] msg.cmd = "verack" -> startOnAck(HandleVersionAck(p))
           [] OTHER -> Handled(p, FALSE, {})

handleMessage(p, registry, msg) ==
    IF ~msg.magic THEN Handled(p, TRUE, {})
    ELSE IF Handshaked(p)
    THEN IF msg.cmd \in {"inv", "getdata"} /\ ~msg.valid THEN Handled(p, TRUE, {})
         ELSE CASE msg.cmd = "addr" -> Handled(p, FALSE, {"BackFill"})
                [] msg.cmd = "getaddr" -> Handled(p, FALSE, {"WriteMsg"})
                [] msg.cmd = "getdata" -> Handled(p, FALSE, {"WriteMsg"})
                [] msg.cmd = "headers" -> Handled(p, FALSE, {"AddHeaders"})
                [] msg.cmd = "inv" -> Handled(p, FALSE, {"WriteMsg"})
                [] msg.cmd = "block" -> Handled(p, FALSE, {"putBlock"})
                [] msg.cmd \in {"version", "verack"} -> Handled(p, TRUE, {})
                [] OTHER -> Handled(p, FALSE, {})
    ELSE CASE msg.cmd = "version" -> handleVersionCmd(p, registry, msg)
           [] msg.cmd = "verack" -> startOnAck(HandleVersionAck(p))
           [] OTHER -> Handled(p, TRUE, {})

NothingHandled == [p |-> 0, cmd |-> "", was |-> FALSE, err |-> FALSE, did |-> {}]

InitNet ==
    /\ conn = [p \in PeerIds |-> NewTCPPeer]
    /\ peers = {}
    /\ registering = 0
    /\ maxPeers \in 1..NumPeers
    /\ handled = NothingHandled

\* handleConn up to the handover of the peer to the server loop.
handleConn ==
    /\ registering = 0
    /\ \E p \in PeerIds, a \in 1..NumAddrs :
          /\ conn[p].stage = "idle"
          /\ conn' = [conn EXCEPT ![p].stage = "open", ![p].addr = a]
          /\ registering' = p
    /\ UNCHANGED <<peers, maxPeers, handled, notNet>>

\* Disconnect: the connection is closed, handleConn leaves its loop.
Disconnect(c, p) == IF c[p].stage = "open" THEN [c EXCEPT ![p].stage = "dropped"] ELSE c

\* The register case of the server loop: sendVersion, the registry, MaxPeers.
register ==
    /\ registering # 0
    /\ LET c1 == [conn EXCEPT ![registering] = SendVersion(@).peer]
           all == peers \cup {registering}
       IN  /\ peers' = all
           /\ IF Cardinality(all) > maxPeers
              THEN \E peer \in all : conn' = Disconnect(c1, peer)
              ELSE conn' = c1
    /\ registering' = 0
    /\ UNCHANGED <<maxPeers, handled, notNet>>

received(p, msg, r) ==
    /\ conn' = [conn EXCEPT ![p] = IF r.err THEN [r.peer EXCEPT !.stage = "dropped"]
                                   ELSE r.peer]
    /\ handled' = [p |-> p, cmd |-> msg.cmd, was |-> Handshaked(conn[p]),
                   err |-> r.err, did |-> r.did]

\* One turn of the loop of handleConn: a message is read and handled.
readMessage ==
    /\ \E p \in PeerIds, msg \in Messages :
          /\ conn[p].stage = "open"
          /\ received(p, msg, handleMessage(conn[p], {conn[q] : q \in peers}, msg))
    /\ UNCHANGED <<peers, registering, maxPeers, notNet>>

\* The connection breaks: reading the next message fails.
readFails ==
    /\ \E p \in PeerIds :
          /\ conn[p].stage = "open"
          /\ conn' = Disconnect(conn, p)
    /\ UNCHANGED <<peers, registering, maxPeers, handled, notNet>>

\* The unregister case of the server loop.
unregister ==
    /\ registering = 0
    /\ \E p \in PeerIds :
          /\ conn[p].stage = "dropped"
          /\ conn' = [conn EXCEPT ![p].stage = "gone"]
          /\ peers' = peers \ {p}
    /\ UNCHANGED <<registering, maxPeers, handled, notNet>>

NextNet == handleConn \/ register \/ readMessage \/ readFails \/ unregister

(***************************************************************************)
(* Discovery.  The addresses are the tracked ones, whose peers may drop,   *)
(* and as many others as the pool holds, which arrive in one addr message. *)
(***************************************************************************)
Tracked == 1..NumTracked
Addrs == 1..(NumTracked + maxPoolSize)
AddrList == [i \in 1..maxPoolSize |-> NumTracked + i]

\* unconnectedAddrs maps an address to its retries left; 0 is no entry.
NewDefaultDiscovery ==
    [badAddrs |-> {}, connectedAddrs |-> {},
     unconnectedAddrs |-> [a \in Addrs |-> 0], pool |-> <<>>]

PoolCount(dd) == Len(dd.pool)

pushToPoolOrDrop(dd, addr) ==
    IF PoolCount(dd) < maxPoolSize THEN [dd EXCEPT !.pool = Append(@, addr)] ELSE dd

\* The test of the loop of BackFill: the address is known already.
skipped(dd, addr) ==
    addr \in dd.badAddrs \/ addr \in dd.connectedAddrs \/ dd.unconnectedAddrs[addr] > 0

\* addrs without the repeats: the loop of BackFill skips an address it has
\* met before, which is either known or admitted by then.
firstOnly(addrs) ==
    IF Cardinality({addrs[i] : i \in 1..Len(addrs)}) = Len(addrs) THEN addrs
    ELSE LET first(i) == \A j \in 1..(i - 1) : addrs[j] # addrs[i]
             places == SelectSeq([i \in 1..Len(addrs) |-> i], first)
         IN  [k \in 1..Len(places) |-> addrs[places[k]]]

\* The addresses the loop of BackFill admits, in the order of addrs.
admitted(dd, addrs) == SelectSeq(firstOnly(addrs), LAMBDA a : ~skipped(dd, a))

\* The loop of BackFill: news are the addresses it admits; each gets
\* connRetries and pushToPoolOrDrop, which queues it while the pool has room.
backFill(dd, news, room) ==
    [dd EXCEPT
        !.unconnectedAddrs =
            [a \in Addrs |-> IF a \in {news[k] : k \in 1..Len(news)}
                             THEN connRetries ELSE @[a]],
        !.pool = @ \o SubSeq(news, 1, IF Len(news) <= room THEN Len(news) ELSE room)]

\* A BackFill that admits every address it is given.
BackFillAll(dd, addrs) == backFill(dd, firstOnly(addrs), maxPoolSize - PoolCount(dd))

BackFill(dd, addrs) == backFill(dd, admitted(dd, addrs), maxPoolSize - PoolCount(dd))

\* RegisterBadAddr after the decrement: left is the new count.
afterDecrement(dd, addr, left) ==
    IF left > 0
    THEN pushToPoolOrDrop([dd EXCEPT !.unconnectedAddrs[addr] = left], addr)
    ELSE [dd EXCEPT !.badAddrs = @ \cup {addr}, !.unconnectedAddrs[addr] = 0]

RegisterBadAddr(dd, addr) == afterDecrement(dd, addr, dd.unconnectedAddrs[addr] - 1)

UnregisterConnectedAddr(dd, s) == [dd EXCEPT !.connectedAddrs = @ \ {s}]

\* registerConnectedAddr that leaves the entry of unconnectedAddrs.
registerConnectedAddrOnly(dd, addr) == [dd EXCEPT !.connectedAddrs = @ \cup {addr}]

registerConnectedAddr(dd, addr) ==
    [dd EXCEPT !.unconnectedAddrs[addr] = 0, !.connectedAddrs = @ \cup {addr}]

\* run receives r from requestCh: at the head of the outer loop when
\* requested is 0, in the select of the inner loop (and its post statement)
\* otherwise.
receiveRequest(r) ==
    IF requested = 0 THEN r
    ELSE (IF requested <= r THEN r + 1 ELSE requested) - 1

InitDisc ==
    /\ d = NewDefaultDiscovery
    /\ requested = 0
    /\ dialing = EmptyBag
    /\ blocked = 0
    /\ dropping = 0
    /\ taken = 0
    /\ failed = [a \in Addrs |-> 0]

\* handleAddrCmd: BackFill for the addresses of an addr message.
handleAddrCmd ==
    /\ \E addrs \in {<<a>> : a \in Tracked} \cup {AddrList} :
          d' = BackFill(d, addrs)
    /\ failed' = [a \in Addrs |-> IF d.unconnectedAddrs[a] = 0
                                      /\ d'.unconnectedAddrs[a] > 0
                                   THEN 0 ELSE failed[a]]
    /\ UNCHANGED <<requested, dialing, blocked, dropping, taken, notDisc>>

\* The server loop asks for connections: RequestRemote(AttemptConnPeers).
RequestRemote ==
    /\ dropping = 0
    /\ \E n \in 1..MaxAttempt : requested' = receiveRequest(n)
    /\ UNCHANGED <<d, dialing, blocked, dropping, taken, failed, notDisc>>

\* run takes an address from the pool and starts tryAddress for it.
runTakesAddr ==
    /\ requested > 0
    /\ d.pool # <<>>
    /\ taken < MaxTaken
    /\ BagCardinality(dialing) + blocked < MaxTrying
    /\ d' = [d EXCEPT !.pool = Tail(@)]
    /\ dialing' = IF Head(d.pool) \in d.connectedAddrs THEN dialing
                  ELSE dialing (+) SetToBag({Head(d.pool)})
    /\ requested' = requested - 1
    /\ taken' = taken + 1
    /\ UNCHANGED <<blocked, dropping, failed, notDisc>>

\* tryAddress, the dial fails: RegisterBadAddr, then on to RequestRemote(1).
tryAddressFails ==
    /\ \E addr \in BagToSet(dialing) :
          /\ dialing' = dialing (-) SetToBag({addr})
          /\ d' = RegisterBadAddr(d, addr)
          /\ failed' = [failed EXCEPT ![addr] = @ + 1]
    /\ blocked' = blocked + 1
    /\ UNCHANGED <<requested, dropping, taken, notDisc>>

\* tryAddress after a failed dial: run receives its RequestRemote(1).
tryAddressRequests ==
    /\ blocked > 0
    /\ blocked' = blocked - 1
    /\ requested' = receiveRequest(1)
    /\ UNCHANGED <<d, dialing, dropping, taken, failed, notDisc>>

\* tryAddress, the dial succeeds: registerConnectedAddr.
tryAddressConnects ==
    /\ \E addr \in BagToSet(dialing) :
          /\ dialing' = dialing (-) SetToBag({addr})
          /\ d' = registerConnectedAddr(d, addr)
          /\ failed' = [failed EXCEPT ![addr] = 0]
    /\ UNCHANGED <<requested, blocked, dropping, taken, notDisc>>

\* The unregister case of the server loop for a peer of a tracked address:
\* UnregisterConnectedAddr ...
unregisterAddr ==
    /\ dropping = 0
    /\ \E addr \in Tracked :
          /\ d' = UnregisterConnectedAddr(d, addr)
          /\ dropping' = addr
    /\ UNCHANGED <<requested, dialing, blocked, taken, failed, notDisc>>

\* ... and then BackFill.
unregisterBackFill ==
    /\ dropping # 0
    /\ d' = BackFill(d, <<dropping>>)
    /\ failed' = [failed EXCEPT ![dropping] =
                      IF d.unconnectedAddrs[dropping] = 0
                         /\ d'.unconnectedAddrs[dropping] > 0
                      THEN 0 ELSE @]
    /\ dropping' = 0
    /\ UNCHANGED <<requested, dialing, blocked, taken, notDisc>>

NextDisc ==
    \/ handleAddrCmd \/ RequestRemote \/ runTakesAddr \/ tryAddressFails
    \/ tryAddressRequests \/ tryAddressConnects \/ unregisterAddr
    \/ unregisterBackFill

(***************************************************************************)
(* The server loop with its peer tasks (server_config.go): the connection  *)
(* handlers of TCPTransport.handleConn, the protocol loops of              *)
(* startProtocol, the dial worker of the discovery, Shutdown.  The         *)
(* register and unregister channels are unbuffered: a send completes when  *)
(* the server loop receives it in its select.                              *)
(***************************************************************************)
Conns == 1..NumConns

\* The connection TCPTransport.Dial makes; the others come from Accept.
Dialed == 1

\* Peer.PeerAddr of the peer of a connection.
PeerAddr(c) == c

\* A connection nobody has made yet.
NoLink == [task |-> "none", proto |-> "none", open |-> FALSE, hs |-> FALSE]

\* The select of Server.run is ready to receive.
atSelect == loop = "running" /\ dropping = 0

InitLoop ==
    /\ link = [c \in Conns |-> NoLink]
    /\ quit = FALSE
    /\ loop = "running"
    /\ dialed = FALSE

\* Server.Start: BackFill of the seeds, then the server loop.
Start ==
    /\ InitLoop
    /\ d = BackFill(NewDefaultDiscovery, <<PeerAddr(Dialed)>>)
    /\ requested = 0 /\ dialing = EmptyBag /\ blocked = 0 /\ dropping = 0
    /\ taken = 0 /\ failed = [a \in Addrs |-> 0]
    /\ conn = [p \in PeerIds |-> NewTCPPeer]
    /\ peers = {} /\ registering = 0 /\ handled = NothingHandled
    /\ maxPeers \in 1..MaxMaxPeers

\* TCPTransport.Accept: a connection comes in, go handleConn.
Accept(c) ==
    /\ c # Dialed
    /\ loop = "running"
    /\ link[c].task = "none"
    /\ link' = [link EXCEPT ![c].task = "register", ![c].open = TRUE]
    /\ UNCHANGED <<quit, loop, dialed, discVars, netVars, notLoop>>

\* tryAddress, TCPTransport.Dial succeeds: go handleConn, return nil.
Dial ==
    /\ BagIn(PeerAddr(Dialed), dialing)
    /\ link[Dialed].task = "none"
    /\ dialing' = dialing (-) SetToBag({PeerAddr(Dialed)})
    /\ dialed' = TRUE
    /\ link' = [link EXCEPT ![Dialed].task = "register", ![Dialed].open = TRUE]
    /\ UNCHANGED <<quit, loop, d, requested, blocked, dropping, taken, failed,
                   netVars, notLoop>>

\* tryAddress after Dial returned nil: registerConnectedAddr.
tryAddressRegisters ==
    /\ dialed
    /\ dialed' = FALSE
    /\ d' = registerConnectedAddr(d, PeerAddr(Dialed))
    /\ failed' = [failed EXCEPT ![PeerAddr(Dialed)] = 0]
    /\ UNCHANGED <<link, quit, loop, requested, dialing, blocked, dropping,
                   taken, netVars, notLoop>>

\* handleConn sends the peer on the register channel and Server.run takes
\* it: the peer is added and, with more than MaxPeers peers, some peer of
\* the registry is disconnected.  handleConn goes on to read messages.
loopRegister(c) ==
    /\ atSelect
    /\ link[c].task = "register"
    /\ peers' = peers \cup {c}
    /\ IF Cardinality(peers') > maxPeers
       THEN \E peer \in peers' :
               link' = [link EXCEPT ![c].task = "read", ![peer].open = FALSE]
       ELSE link' = [link EXCEPT ![c].task = "read"]
    /\ UNCHANGED <<quit, loop, dialed, discVars, conn, registering, maxPeers,
                   handled, notLoop>>

\* handleConn reads version and verack: the handshake is complete and
\* handleVerackCmd starts startProtocol.
connHandshakes(c) ==
    /\ link[c].task = "read" /\ link[c].open /\ ~link[c].hs
    /\ link' = [link EXCEPT ![c].hs = TRUE, ![c].proto = "run"]
    /\ UNCHANGED <<quit, loop, dialed, discVars, netVars, notLoop>>

\* handleConn on an open connection: Decode or handleMessage fails.
connFails(c) ==
    /\ link[c].task = "read" /\ link[c].open
    /\ link' = [link EXCEPT ![c].task = "unregister"]
    /\ UNCHANGED <<quit, loop, dialed, discVars, netVars, notLoop>>

\* handleConn on a connection Disconnect has closed: Decode fails.
connClosed(c) ==
    /\ link[c].task = "read" /\ ~link[c].open
    /\ link' = [link EXCEPT ![c].task = "unregister"]
    /\ UNCHANGED <<quit, loop, dialed, discVars, netVars, notLoop>>

\* startProtocol leaves its loop: Done was signalled, or a write failed.
startProtocolStops(c) ==
    /\ link[c].proto = "run"
    /\ link' = [link EXCEPT ![c].proto = "unregister"]
    /\ UNCHANGED <<quit, loop, dialed, discVars, netVars, notLoop>>

\* Done is signalled on the closed connection of a protocol loop.
startProtocolDone(c) ==
    /\ ~link[c].open
    /\ startProtocolStops(c)

\* An unregister case that does not look whether the peer is registered.
loopUnregisterUnchecked(c, who) ==
    /\ atSelect
    /\ link[c][who] = "unregister"
    /\ link' = [link EXCEPT ![c][who] = "done", ![c].open = FALSE]
    /\ peers' = peers \ {c}
    /\ d' = UnregisterConnectedAddr(d, PeerAddr(c))
    /\ dropping' = PeerAddr(c)
    /\ UNCHANGED <<quit, loop, dialed, requested, dialing, blocked, taken,
                   failed, conn, registering, maxPeers, handled, notLoop>>

\* A task (handleConn or startProtocol) sends its peerDrop on the
\* unregister channel and Server.run takes it: a registered peer is deleted
\* and UnregisterConnectedAddr is called, BackFill is still to come.  The
\* task goes on to Disconnect and returns.
loopUnregister(c, who) ==
    /\ atSelect
    /\ link[c][who] = "unregister"
    /\ link' = [link EXCEPT ![c][who] = "done", ![c].open = FALSE]
    /\ IF c \in peers
       THEN /\ peers' = peers \ {c}
            /\ d' = UnregisterConnectedAddr(d, PeerAddr(c))
            /\ dropping' = PeerAddr(c)
       ELSE UNCHANGED <<peers, d, dropping>>
    /\ UNCHANGED <<quit, loop, dialed, requested, dialing, blocked, taken,
                   failed, conn, registering, maxPeers, handled, notLoop>>

\* Server.Shutdown: close(s.quit).
Shutdown ==
    /\ ~quit
    /\ quit' = TRUE
    /\ UNCHANGED <<link, loop, dialed, discVars, netVars, notLoop>>

\* The quit case of Server.run: every registered peer is disconnected and
\* the loop returns.
loopQuit ==
    /\ atSelect
    /\ quit
    /\ link' = [c \in Conns |-> IF c \in peers THEN [link[c] EXCEPT !.open = FALSE]
                                 ELSE link[c]]
    /\ loop' = "returned"
    /\ UNCHANGED <<quit, dialed, discVars, netVars, notLoop>>

\* The head of the loop of Server.run: RequestRemote.
loopRequestRemote == loop = "running" /\ RequestRemote

\* The end of the unregister case.
loopBackFill == loop = "running" /\ unregisterBackFill

Tasks == {"task", "proto"}

\* The server loop and the tasks of the connections made to it.
NextLoop ==
    \/ \E c \in Conns : Accept(c)
    \/ \E c \in Conns : loopRegister(c)
    \/ \E c \in Conns : connHandshakes(c)
    \/ \E c \in Conns : connFails(c)
    \/ \E c \in Conns : connClosed(c)
    \/ \E c \in Conns : startProtocolStops(c)
    \/ \E c \in Conns, who \in Tasks : loopUnregister(c, who)
    \/ Shutdown
    \/ loopQuit
    \/ loopBackFill

\* The dial worker, the connection it makes and the server loop.
NextDial ==
    \/ loopRequestRemote
    \/ runTakesAddr
    \/ Dial
    \/ tryAddressFails
    \/ tryAddressRequests
    \/ tryAddressRegisters
    \/ loopRegister(Dialed)
    \/ connHandshakes(Dialed)
    \/ connFails(Dialed)
    \/ connClosed(Dialed)
    \/ startProtocolStops(Dialed)
    \/ \E who \in Tasks : loopUnregister(Dialed, who)
    \/ loopBackFill

\* What the Go scheduler and the closed connections guarantee: a task that
\* can run does run, a read of a closed connection returns, a ready select
\* of the server loop takes one of its cases.
FairLoop ==
    /\ \A c \in Conns : WF_vars(connClosed(c))
    /\ \A c \in Conns : WF_vars(startProtocolDone(c))
    /\ \A c \in Conns : WF_vars(loopRegister(c))
    /\ \A c \in Conns, who \in Tasks : WF_vars(loopUnregister(c, who))
    /\ WF_vars(loopQuit)
    /\ WF_vars(loopBackFill)

(***************************************************************************)
(* RelayTxn and the lock of the peer registry (server_config.go).  The     *)
(* chain and the mempool are behind interfaces: what HasTransaction,       *)
(* VerifyTx and TryAdd answer is an input of the call.  A peer's version   *)
(* is known once handleVersionCmd has stored it.                           *)
(***************************************************************************)
Txs == 1..NumTxs

RelayReasons == {"Succeed", "AlreadyExists", "OutOfMemory", "Invalid"}

\* A peer as RelayTxn sees it: Version() and Handshaked().
NoVersion == [version |-> "none", hs |-> FALSE]

\* The peer of a connection that was dropped.
Gone == [version |-> "gone", hs |-> FALSE]

NoRelay == [pc |-> "idle", tx |-> 0, miner |-> FALSE, has |-> FALSE,
            verified |-> FALSE, added |-> FALSE, before |-> {},
            start |-> {}, visited |-> {}, sent |-> {}, result |-> "none"]

Unlocked == [op |-> "none", peer |-> 0]

\* The checks of RelayTxn before the relay loop, in its order.
relayReason(miner, has, verified, added) ==
    IF miner THEN "Invalid"
    ELSE IF has THEN "AlreadyExists"
    ELSE IF ~verified THEN "Invalid"
    ELSE IF ~added THEN "OutOfMemory"
    ELSE "Succeed"

\* TryAdd called whatever the checks said.
reachesTryAddAlways(miner, has, verified) == TRUE

\* Whether RelayTxn gets as far as TryAdd.
reachesTryAdd(miner, has, verified) == ~miner /\ ~has /\ verified

\* MemPool.TryAdd: the pool after it.
TryAdd(pool, t, ok) == IF ok THEN pool \cup {t} ELSE pool

\* RelayDirectly sends to a peer whose version has relay set.
relaysTo(p) == pv[p].version = "relay"

InitRelay ==
    /\ mem = {}
    /\ rt = NoRelay
    /\ pv = [p \in PeerIds |-> NoVersion]
    /\ lk = Unlocked
    /\ rlocked = {}

netRest == <<conn, registering, maxPeers, handled>>

\* The register case of Server.run takes the write lock (each connection
\* has a TCPPeer of its own: a peer registers once) ...
registerLocks(p) ==
    /\ lk = Unlocked /\ rlocked = {}
    /\ p \notin peers /\ pv[p] = NoVersion
    /\ lk' = [op |-> "add", peer |-> p]
    /\ UNCHANGED <<mem, rt, pv, rlocked, peers, netRest, notRelay>>

\* ... and the unregister case does.
unregisterLocks(p) ==
    /\ lk = Unlocked /\ rlocked = {}
    /\ p \in peers
    /\ lk' = [op |-> "delete", peer |-> p]
    /\ UNCHANGED <<mem, rt, pv, rlocked, peers, netRest, notRelay>>

\* The write under the lock, and Unlock.
loopWrites ==
    /\ lk.op # "none"
    /\ peers' = IF lk.op = "add" THEN peers \cup {lk.peer} ELSE peers \ {lk.peer}
    /\ pv' = IF lk.op = "add" THEN pv ELSE [pv EXCEPT ![lk.peer] = Gone]
    /\ lk' = Unlocked
    /\ UNCHANGED <<mem, rt, rlocked, netRest, notRelay>>

\* handleVersionCmd: the registry is read under the read lock, the version
\* of the peer is stored.
versionCmd(p) ==
    /\ lk = Unlocked
    /\ p \in peers /\ pv[p].version = "none"
    /\ \E relay \in {"relay", "norelay"} : pv' = [pv EXCEPT ![p].version = relay]
    /\ UNCHANGED <<mem, rt, lk, rlocked, peers, netRest, notRelay>>

\* handleVerackCmd: the handshake of the peer is complete.
verackCmd(p) ==
    /\ p \in peers /\ pv[p].version # "none" /\ ~pv[p].hs
    /\ pv' = [pv EXCEPT ![p].hs = TRUE]
    /\ UNCHANGED <<mem, rt, lk, rlocked, peers, netRest, notRelay>>

\* PeerCount: RLock ...
PeerCountLocks ==
    /\ lk = Unlocked
    /\ "PeerCount" \notin rlocked
    /\ rlocked' = rlocked \cup {"PeerCount"}
    /\ UNCHANGED <<mem, rt, pv, lk, peers, netRest, notRelay>>

\* ... len(s.peers), RUnlock.
PeerCountReturns ==
    /\ "PeerCount" \in rlocked
    /\ rlocked' = rlocked \ {"PeerCount"}
    /\ UNCHANGED <<mem, rt, pv, lk, peers, netRest, notRelay>>

\* RelayTxn up to the relay loop: the checks, TryAdd, and with RelaySucceed
\* ahead the range over s.Peers() begins.
RelayTxn ==
    /\ rt.pc # "relaying"
    /\ \E t \in Txs, miner, has, verified \in BOOLEAN :
       \E ok \in IF t \in mem THEN {FALSE} ELSE BOOLEAN :
          LET reason == relayReason(miner, has, verified, ok)
          IN  /\ mem' = IF reachesTryAdd(miner, has, verified)
                        THEN TryAdd(mem, t, ok) ELSE mem
              /\ rt' = [pc |-> IF reason = "Succeed" THEN "relaying" ELSE "returned",
                        tx |-> t, miner |-> miner, has |-> has,
                        verified |-> verified, added |-> ok, before |-> mem,
                        start |-> peers, visited |-> {}, sent |-> {},
                        result |-> IF reason = "Succeed" THEN "none" ELSE reason]
    /\ UNCHANGED <<pv, lk, rlocked, peers, netRest, notRelay>>

\* One turn of the relay loop: RelayDirectly for a peer the range yields.
\* Version() of a peer that has sent no version is nil.
RelayDirectly(p) ==
    /\ rt.pc = "relaying"
    /\ p \in peers \ rt.visited
    /\ rt' = IF pv[p].version = "none"
             THEN [rt EXCEPT !.pc = "panicked"]
             ELSE [rt EXCEPT !.visited = @ \cup {p},
                             !.sent = IF relaysTo(p) THEN @ \cup {p} ELSE @]
    /\ UNCHANGED <<mem, pv, lk, rlocked, peers, netRest, notRelay>>

\* The range ends when it has yielded every peer that was in the map at
\* its start and still is; peers added meanwhile may have been skipped.
relayReturns ==
    /\ rt.pc = "relaying"
    /\ (rt.start \cap peers) \subseteq rt.visited
    /\ rt' = [rt EXCEPT !.pc = "returned", !.result = "Succeed"]
    /\ UNCHANGED <<mem, pv, lk, rlocked, peers, netRest, notRelay>>

\* The range runs while the server loop writes the map: the runtime may
\* stop the process (concurrent map iteration and map write).
relayCrashes ==
    /\ rt.pc = "relaying"
    /\ lk.op # "none"
    /\ rt' = [rt EXCEPT !.pc = "fatal"]
    /\ UNCHANGED <<mem, pv, lk, rlocked, peers, netRest, notRelay>>

NextRelay ==
    \/ \E p \in PeerIds : registerLocks(p)
    \/ \E p \in PeerIds : unregisterLocks(p)
    \/ loopWrites
    \/ \E p \in PeerIds : versionCmd(p)
    \/ \E p \in PeerIds : verackCmd(p)
    \/ PeerCountLocks
    \/ PeerCountReturns
    \/ RelayTxn
    \/ \E p \in PeerIds : RelayDirectly(p)
    \/ relayReturns
    \/ relayCrashes

(***************************************************************************)
(* The messages of one peer (handleConn, handleMessage): each message is   *)
(* decoded and handled in turn; a headers message is handed to a goroutine *)
(* of its own.                                                             *)
(***************************************************************************)
Kinds == {"headers", "block", "inv"}

Streams == UNION {[1..n -> Kinds] : n \in 1..MaxMsgs}

InitOrder ==
    /\ cur = 0
    /\ busy = FALSE
    /\ adding = {}
    /\ effects = <<>>

\* What handleMessage does with message k before it returns.
afterHandleMessage(k) ==
    IF msgs[k] = "headers" THEN <<adding \cup {k}, effects>>
    ELSE IF msgs[k] = "block" THEN <<adding, Append(effects, k)>>
    ELSE <<adding, effects>>

\* handleConn decodes the next message and calls handleMessage.
decodeNext ==
    /\ ~busy
    /\ cur < Len(msgs)
    /\ cur' = cur + 1
    /\ busy' = TRUE
    /\ UNCHANGED <<msgs, adding, effects, notOrder>>

\* handleMessage returns: handleBlockCmd has put the block in the queue,
\* `go s.handleHeadersCmd` has started the goroutine.
messageHandled ==
    /\ busy
    /\ busy' = FALSE
    /\ adding' = afterHandleMessage(cur)[1]
    /\ effects' = afterHandleMessage(cur)[2]
    /\ UNCHANGED <<msgs, cur, notOrder>>

\* handleHeadersCmd: AddHeaders returns, the headers are in the chain.
handleHeadersCmd(k) ==
    /\ k \in adding
    /\ adding' = adding \ {k}
    /\ effects' = Append(effects, k)
    /\ UNCHANGED <<msgs, cur, busy, notOrder>>

NextOrder ==
    \/ decodeNext
    \/ messageHandled
    \/ \E k \in 1..MaxMsgs : handleHeadersCmd(k)

(***************************************************************************)
(* The numeric opcodes of the VM.  An integer is written h * 2^254 + l     *)
(* with small h and l, 254 being MaxBigIntegerSizeBits - 2: sums,          *)
(* differences, negations, and products and shifts by small numbers of     *)
(* such integers are computed exactly.                                     *)
(***************************************************************************)
Big(h, l) == [hi |-> h, lo |-> l]

BigInts == {Big(h, l) : h \in (0 - MaxHi)..MaxHi, l \in (0 - MaxLo)..MaxLo}

Small(x) == x.hi = 0

\* big.Int: Add, Sub, Neg, Abs, Sign, Mul by a small integer, Lsh.
BigAdd(a, b) == Big(a.hi + b.hi, a.lo + b.lo)
BigNeg(a) == Big(0 - a.hi, 0 - a.lo)
BigSub(a, b) == BigAdd(a, BigNeg(b))
BigSign(a) ==
    IF a.hi > 0 THEN 1 ELSE IF a.hi < 0 THEN 0 - 1
    ELSE IF a.lo > 0 THEN 1 ELSE IF a.lo < 0 THEN 0 - 1 ELSE 0
BigAbs(a) == IF BigSign(a) < 0 THEN BigNeg(a) ELSE a
BigMul(a, b) == IF Small(b) THEN Big(a.hi * b.lo, a.lo * b.lo)
                ELSE Big(b.hi * a.lo, b.lo * a.lo)
BigLsh(a, n) == Big(a.hi * 2^n, a.lo * 2^n)

\* The bit length of a small natural number.
natBitLen(n) == CHOOSE k \in 0..16 : n < 2^k /\ (k = 0 \/ n >= 2^(k - 1))

\* big.Int.BitLen: the bit length of the absolute value.
BitLen(a) ==
    LET m == BigAbs(a)
    IN  IF m.hi = 0 THEN natBitLen(m.lo)
        ELSE IF m.lo >= 0 THEN (MaxBigIntegerSizeBits - 2) + natBitLen(m.hi)
        ELSE (MaxBigIntegerSizeBits - 2) + natBitLen(m.hi - 1)

\* checkBigIntSize panics.
checkBigIntSize(a) == BitLen(a) > MaxBigIntegerSizeBits

\* What an opcode leaves: a fault, or the integer it pushed, or (SHL by 0)
\* the stack as it was.
Faulted == [fault |-> TRUE, pushed |-> FALSE, val |-> Big(0, 0)]
Pushed(c) == [fault |-> FALSE, pushed |-> TRUE, val |-> c]
Untouched == [fault |-> FALSE, pushed |-> FALSE, val |-> Big(0, 0)]

\* Push the result unless checkBigIntSize panics for it.
PushChecked(c) == IF checkBigIntSize(c) THEN Faulted ELSE Pushed(c)

\* ADD, SUB, MUL: a is the first operand popped for ADD and MUL, the second
\* for SUB; both operands and the result are checked.
opADD(a, b) ==
    IF checkBigIntSize(a) \/ checkBigIntSize(b) THEN Faulted
    ELSE PushChecked(BigAdd(a, b))

opSUB(a, b) ==
    IF checkBigIntSize(b) \/ checkBigIntSize(a) THEN Faulted
    ELSE PushChecked(BigSub(a, b))

opMUL(a, b) ==
    IF checkBigIntSize(a) \/ checkBigIntSize(b) THEN Faulted
    ELSE PushChecked(BigMul(a, b))

\* INC, DEC: only the result is checked.
opINC(x) == PushChecked(BigAdd(x, Big(0, 1)))
opDEC(x) == PushChecked(BigSub(x, Big(0, 1)))

\* NEGATE, ABS: nothing is checked.
opNEGATE(x) == Pushed(BigNeg(x))
opABS(x) == Pushed(BigAbs(x))

\* SHL by b: nothing happens for 0, the operand and the result are checked
\* otherwise.
opSHL(a, b) ==
    IF b = 0 THEN Untouched
    ELSE IF checkBigIntSize(a) THEN Faulted
    ELSE PushChecked(BigLsh(a, b))

\* A numeric opcode with its operands on the stack, not yet executed.
Operands(op, a, b) == [op |-> op, a |-> a, b |-> b, done |-> FALSE, out |-> Untouched]

NoOperands == Operands("none", Big(0, 0), Big(0, 0))

InitNum ==
    num \in {Operands(op, a, b) : op \in {"ADD", "SUB"}, a \in BigInts, b \in BigInts}
         \cup {Operands("MUL", a, b) : a \in BigInts,
                                       b \in {x \in BigInts : Small(x)}}
         \cup {Operands(op, a, Big(0, 0)) :
                  op \in {"INC", "DEC", "NEGATE", "ABS"}, a \in BigInts}
         \cup {Operands("SHL", a, Big(0, n)) : a \in BigInts, n \in 0..MaxShift}

\* An opcode with two integer operands is executed.
execBinary ==
    /\ ~num.done /\ num.op \in {"ADD", "SUB", "MUL"}
    /\ num' = [num EXCEPT !.done = TRUE,
                          !.out = CASE num.op = "ADD" -> opADD(num.a, num.b)
                                    [] num.op = "SUB" -> opSUB(num.a, num.b)
                                    [] num.op = "MUL" -> opMUL(num.a, num.b)]
    /\ UNCHANGED notNum

\* An opcode with one integer operand is executed.
execUnary ==
    /\ ~num.done /\ num.op \in {"INC", "DEC", "NEGATE", "ABS"}
    /\ num' = [num EXCEPT !.done = TRUE,
                          !.out = CASE num.op = "INC" -> opINC(num.a)
                                    [] num.op = "DEC" -> opDEC(num.a)
                                    [] num.op = "NEGATE" -> opNEGATE(num.a)
                                    [] num.op = "ABS" -> opABS(num.a)]
    /\ UNCHANGED notNum

\* SHL is executed.
execSHL ==
    /\ ~num.done /\ num.op = "SHL"
    /\ num' = [num EXCEPT !.done = TRUE, !.out = opSHL(num.a, num.b.lo)]
    /\ UNCHANGED notNum

NextNum == execBinary \/ execUnary \/ execSHL

(***************************************************************************)
(* SHL and SHR.  A shifted integer is written m * 2^k with a small m, so   *)
(* that shifts by up to maxSHLArg bits are computed exactly; the count is  *)
(* an integer hi * 2^64 + lo.  The stack holds the operand (an integer or  *)
(* a byte array) under the count.                                          *)
(***************************************************************************)
maxSHLArg == MaxBigIntegerSizeBits
minSHLArg == 0 - MaxBigIntegerSizeBits

Pow(m, k) == [m |-> m, k |-> k]

PowAbsBits(x) == IF x.m = 0 THEN 0
                 ELSE natBitLen(IF x.m < 0 THEN 0 - x.m ELSE x.m) + x.k

\* checkBigIntSize panics for the integer.
checkPowSize(x) == PowAbsBits(x) > MaxBigIntegerSizeBits

\* uint(b) of a negative int64 is 2^64 - |b|: Lsh by it asks for a slice of
\* 2^58 words, which make refuses with a panic, unless the operand is zero;
\* Rsh by it leaves 0, or -1 of a negative operand.
PowLsh(x, b) ==
    IF b >= 0 THEN [panic |-> FALSE, val |-> IF x.m = 0 THEN x ELSE Pow(x.m, x.k + b)]
    ELSE [panic |-> x.m # 0, val |-> Pow(0, 0)]

PowRsh(x, b) ==
    IF b < 0 \/ b - x.k > 8
    THEN [panic |-> FALSE, val |-> IF x.m < 0 THEN Pow(0 - 1, 0) ELSE Pow(0, 0)]
    ELSE IF b <= x.k THEN [panic |-> FALSE, val |-> Pow(x.m, x.k - b)]
    ELSE [panic |-> FALSE, val |-> Pow(x.m \div (2 ^ (b - x.k)), 0)]

ShiftItem(t, x) == [t |-> t, val |-> x]
ShiftCount(hi, lo) == [t |-> "int", hi |-> hi, lo |-> lo]

ShiftFault(stack) == [fault |-> TRUE, stack |-> stack]
ShiftDone(stack) == [fault |-> FALSE, stack |-> stack]

\* case SHL, SHR: b is the low 64 bits of the count.
opSHLSHR(op, a, count) ==
    LET b == count.lo
        item == IF op = "SHL" THEN PowLsh(a.val, b) ELSE PowRsh(a.val, b)
    IN  IF b = 0 THEN ShiftDone(<<a>>)
        ELSE IF b < minSHLArg \/ b > maxSHLArg THEN ShiftFault(<<a>>)
        ELSE IF checkPowSize(a.val) THEN ShiftFault(<<>>)
        ELSE IF item.panic THEN ShiftFault(<<>>)
        ELSE IF checkPowSize(item.val) THEN ShiftFault(<<>>)
        ELSE ShiftDone(<<ShiftItem("int", item.val)>>)

MaxMant == 2

ShiftExps == {0, 1, MaxBigIntegerSizeBits - 2, MaxBigIntegerSizeBits - 1,
              MaxBigIntegerSizeBits}

ShiftOperands ==
    {ShiftItem(t, Pow(m, k)) : t \in {"int", "bytes"}, m \in (0 - MaxMant)..MaxMant,
                               k \in ShiftExps}

ShiftCounts ==
    {ShiftCount(0, n) : n \in {minSHLArg - 1, minSHLArg, 0 - 2, 0 - 1, 0, 1, 2,
                                maxSHLArg - 1, maxSHLArg, maxSHLArg + 1}}
       \cup {ShiftCount(1, n) : n \in {0, 1, maxSHLArg + 1}}

InitShift ==
    num \in {[op |-> op, a |-> a, b |-> b, done |-> FALSE, out |-> ShiftDone(<<a, b>>)] :
                op \in {"SHL", "SHR"}, a \in ShiftOperands, b \in ShiftCounts}

\* SHL or SHR is executed.
execShift ==
    /\ ~num.done /\ num.op \in {"SHL", "SHR"}
    /\ num' = [num EXCEPT !.done = TRUE, !.out = opSHLSHR(num.op, num.a, num.b)]
    /\ UNCHANGED notNum

NextShift == execShift

NoServed == [blocks |-> {}, txs |-> {}, pool |-> {}, verified |-> {},
             queue |-> <<>>, sent |-> <<>>, last |-> <<>>, served |-> 0]
NoWire == [kind |-> "none"]

(***************************************************************************)
(* The payloads GetBlocks, Version and PublishTX on the wire.  A payload   *)
(* is encoded to a sequence of bytes and decoded from it by a reader that  *)
(* keeps the bytes not yet read and a sticky error (io.BinWriter and       *)
(* io.BinReader; integers little-endian, var-uint size prefixes).          *)
(***************************************************************************)
Zeros(n) == [i \in 1..n |-> 0]

\* WriteLE of an unsigned integer of w bytes.
RECURSIVE WriteLE(_, _)
WriteLE(n, w) == IF w = 0 THEN <<>> ELSE <<n % 256>> \o WriteLE(n \div 256, w - 1)

\* WriteVarUint (the 8-byte form is beyond the integers of the model).
WriteVarUint(n) ==
    IF n < 253 THEN <<n>>
    ELSE IF n < 65536 THEN <<253>> \o WriteLE(n, 2)
    ELSE <<254>> \o WriteLE(n, 4)

WriteBytes(bs) == WriteVarUint(Len(bs)) \o bs

WriteBool(b) == IF b THEN <<1>> ELSE <<0>>

NewBinReader(bs) == [rest |-> bs, err |-> FALSE]

\* ReadLE of n bytes: after an error, and when fewer than n bytes are left,
\* the value read stays zero and the error is set.
ReadN(r, n) ==
    IF r.err THEN [r |-> r, b |-> Zeros(n)]
    ELSE IF Len(r.rest) < n THEN [r |-> [rest |-> <<>>, err |-> TRUE], b |-> Zeros(n)]
    ELSE [r |-> [r EXCEPT !.rest = SubSeq(@, n + 1, Len(@))], b |-> SubSeq(r.rest, 1, n)]

ReadUint(r, w) ==
    LET got == ReadN(r, w) IN [r |-> got.r, n |-> LittleEndian(got.b)]

ReadVarUint(r) ==
    LET first == ReadUint(r, 1) IN
    IF first.n = 253 THEN ReadUint(first.r, 2)
    ELSE IF first.n = 254 THEN ReadUint(first.r, 4)
    ELSE IF first.n = 255 THEN ReadUint(first.r, 8)
    ELSE first

ReadBytes(r) ==
    LET n == ReadVarUint(r) IN ReadN(n.r, n.n)

ReadBool(r) ==
    LET got == ReadUint(r, 1) IN [r |-> got.r, b |-> got.n # 0]

Uint256Size == 32

\* A hash: 32 bytes, here all the same.
Uint256(k) == [i \in 1..Uint256Size |-> k]

RECURSIVE Flatten(_)
Flatten(ss) == IF ss = <<>> THEN <<>> ELSE Head(ss) \o Flatten(Tail(ss))

\* GetBlocks.EncodeBinary.
EncodeGetBlocks(p) ==
    WriteVarUint(Len(p.HashStart)) \o Flatten(p.HashStart) \o p.HashStop

\* GetBlocks.DecodeBinary: the slice of lenStart hashes is read in one go.
DecodeGetBlocks(p, r) ==
    LET lenStart == ReadVarUint(r)
        start == ReadN(lenStart.r, lenStart.n * Uint256Size)
        stop == ReadN(start.r, Uint256Size)
    IN  [p |-> [p EXCEPT
                  !.HashStart = [i \in 1..lenStart.n |->
                                    SubSeq(start.b, (i - 1) * Uint256Size + 1,
                                           i * Uint256Size)],
                  !.HashStop = stop.b],
         r |-> stop.r]

\* Version.EncodeBinary.
EncodeVersion(p) ==
    WriteLE(p.Version, 4) \o WriteLE(p.Services, 8) \o WriteLE(p.Timestamp, 4)
    \o WriteLE(p.Port, 2) \o WriteLE(p.Nonce, 4) \o WriteBytes(p.UserAgent)
    \o WriteLE(p.StartHeight, 4) \o WriteBool(p.Relay)

\* Version.DecodeBinary.
DecodeVersion(p, r) ==
    LET version == ReadUint(r, 4)
        services == ReadUint(version.r, 8)
        timestamp == ReadUint(services.r, 4)
        port == ReadUint(timestamp.r, 2)
        nonce == ReadUint(port.r, 4)
        userAgent == ReadBytes(nonce.r)
        startHeight == ReadUint(userAgent.r, 4)
        relay == ReadBool(startHeight.r)
    IN  [p |-> [Version |-> version.n, Services |-> services.n,
                Timestamp |-> timestamp.n, Port |-> port.n, Nonce |-> nonce.n,
                UserAgent |-> userAgent.b, StartHeight |-> startHeight.n,
                Relay |-> relay.b],
         r |-> relay.r]

\* PublishTX.EncodeBinary: NeedStorage is written from version 1 on.
EncodePublishTX(tx) ==
    WriteBytes(tx.Script) \o WriteVarUint(Len(tx.ParamList)) \o tx.ParamList
    \o <<tx.ReturnType>>
    \o (IF tx.Version >= 1 THEN WriteBool(tx.NeedStorage) ELSE <<>>)
    \o WriteBytes(tx.Name) \o WriteBytes(tx.CodeVersion) \o WriteBytes(tx.Author)
    \o WriteBytes(tx.Email) \o WriteBytes(tx.Description)

\* PublishTX.DecodeBinary: Version is the one the value has already.
DecodePublishTX(tx, r) ==
    LET script == ReadBytes(r)
        lenParams == ReadVarUint(script.r)
        params == ReadN(lenParams.r, lenParams.n)
        rtype == ReadUint(params.r, 1)
        need == IF tx.Version >= 1 THEN ReadBool(rtype.r)
                ELSE [r |-> rtype.r, b |-> FALSE]
        name == ReadBytes(need.r)
        codeVersion == ReadBytes(name.r)
        author == ReadBytes(codeVersion.r)
        email == ReadBytes(author.r)
        description == ReadBytes(email.r)
    IN  [p |-> [tx EXCEPT !.Script = script.b, !.ParamList = params.b,
                          !.ReturnType = rtype.n, !.NeedStorage = need.b,
                          !.Name = name.b, !.CodeVersion = codeVersion.b,
                          !.Author = author.b, !.Email = email.b,
                          !.Description = description.b],
         r |-> description.r]

\* The zero values decoding starts from.
FreshGetBlocks == [HashStart |-> <<>>, HashStop |-> Uint256(0)]
FreshVersion ==
    [Version |-> 0, Services |-> 0, Timestamp |-> 0, Port |-> 0, Nonce |-> 0,
     UserAgent |-> <<>>, StartHeight |-> 0, Relay |-> FALSE]
FreshPublishTX ==
    [Script |-> <<>>, ParamList |-> <<>>, ReturnType |-> 0, NeedStorage |-> FALSE,
     Name |-> <<>>, CodeVersion |-> <<>>, Author |-> <<>>, Email |-> <<>>,
     Description |-> <<>>, Version |-> 0]

WireHashes == { Uint256(k) : k \in 0..2 }

GetBlocksValues ==
    [HashStart : {<<>>} \cup {<<a>> : a \in WireHashes}
                        \cup {<<a, b>> : a, b \in WireHashes},
     HashStop : WireHashes]

WireNumbers == {0, 258}

VersionValues ==
    [Version : {0, 1}, Services : {1}, Timestamp : WireNumbers, Port : {0, 20333},
     Nonce : WireNumbers, UserAgent : {<<>>, <<47, 78>>}, StartHeight : WireNumbers,
     Relay : BOOLEAN]

\* Scripts: empty, one byte, and one whose length takes the 3-byte prefix.
WireScripts == {<<>>, <<81>>, Zeros(LongScript)}

PublishTXValues ==
    [Script : WireScripts, ParamList : {<<>>, <<1, 5>>}, ReturnType : {0, 5},
     NeedStorage : BOOLEAN, Name : {<<>>, <<110>>}, CodeVersion : {<<49>>},
     Author : {<<>>}, Email : {<<>>}, Description : {<<100, 101>>},
     Version : {0, 1}]

Encoded(kind, x) ==
    CASE kind = "GetBlocks" -> EncodeGetBlocks(x)
      [] kind = "Version" -> EncodeVersion(x)
      [] kind = "PublishTX" -> EncodePublishTX(x)

Decoded(kind, into, bytes) ==
    CASE kind = "GetBlocks" -> DecodeGetBlocks(into, NewBinReader(bytes))
      [] kind = "Version" -> DecodeVersion(into, NewBinReader(bytes))
      [] kind = "PublishTX" -> DecodePublishTX(into, NewBinReader(bytes))

Payload(kind, x, into) ==
    [kind |-> kind, stage |-> "made", x |-> x, into |-> into, bytes |-> <<>>,
     y |-> into, rest |-> <<>>, err |-> FALSE]

\* The value decoded into is a fresh one; the PublishTX of a transaction
\* may also have been given the version of the transaction.
InitWire ==
    \/ \E x \in GetBlocksValues : wire = Payload("GetBlocks", x, FreshGetBlocks)
    \/ \E x \in VersionValues : wire = Payload("Version", x, FreshVersion)
    \/ \E x \in PublishTXValues : \E version \in {0, x.Version} :
          wire = Payload("PublishTX", x, [FreshPublishTX EXCEPT !.Version = version])

EncodeBinary ==
    /\ wire.stage = "made"
    /\ wire' = [wire EXCEPT !.stage = "encoded", !.bytes = Encoded(wire.kind, wire.x)]
    /\ UNCHANGED notWire

DecodeBinary ==
    /\ wire.stage = "encoded"
    /\ LET got == Decoded(wire.kind, wire.into, wire.bytes) IN
       wire' = [wire EXCEPT !.stage = "decoded", !.y = got.p, !.rest = got.r.rest,
                            !.err = got.r.err]
    /\ UNCHANGED notWire

NextWire == EncodeBinary \/ DecodeBinary

(***************************************************************************)
(* pkg/crypto/keys: PublicKey.DecodeBinary.  The curve is a curve of the   *)
(* shape of P-256, y^2 = x^3 - 3x + b over a prime field, of prime order   *)
(* (no point has y = 0), small enough to enumerate: coordinates take       *)
(* CoordLen bytes (32 in the code) and a byte is one of 0..MaxByte, so     *)
(* that a coordinate can be at or above the modulus as well as below it.   *)
(***************************************************************************)
FieldP == 7
CurveB == 6
CoordLen == 1
MaxByte == 9
MaxKeyBytes == 3

\* big.Int.SetBytes: the bytes as a big-endian number.
SetBytes(bs) == LittleEndian([i \in 1..Len(bs) |-> bs[Len(bs) + 1 - i]])

\* x^3 - 3x + b mod p, as decodeCompressedY and the curve compute it.
polynomial(x) == (((x * x * x) % FieldP) - ((3 * x) % FieldP) + CurveB) % FieldP

\* big.Int.ModSqrt: a square root modulo the prime, if there is one.
HasSqrt(a) == \E y \in 0..(FieldP - 1) : (y * y) % FieldP = a
ModSqrt(a) == CHOOSE y \in 0..(FieldP - 1) : (y * y) % FieldP = a

decodeCompressedY(x, ylsb) ==
    LET ySquared == polynomial(x) IN
    IF ~HasSqrt(ySquared) THEN [err |-> TRUE, y |-> 0]
    ELSE LET y == ModSqrt(ySquared) IN
         [err |-> FALSE, y |-> IF y % 2 # ylsb THEN (0 - y) % FieldP ELSE y]

\* elliptic.Curve.IsOnCurve of the generic curve: both sides are reduced
\* modulo P, the coordinates themselves are not compared with P.
IsOnCurve(x, y) == (y * y) % FieldP = polynomial(x)

\* The check that follows IsOnCurve.
outOfField(x, y) == x >= FieldP \/ y >= FieldP

FreshPublicKey == [set |-> FALSE, X |-> 0, Y |-> 0]
IsInfinity(p) == ~p.set

\* The last lines of DecodeBinary, from the parsed coordinates on.
checkPoint(p, r, x, y) ==
    IF ~IsOnCurve(x, y) THEN [p |-> p, r |-> [r EXCEPT !.err = TRUE]]
    ELSE IF outOfField(x, y) THEN [p |-> p, r |-> [r EXCEPT !.err = TRUE]]
    ELSE [p |-> [set |-> TRUE, X |-> x, Y |-> y], r |-> r]

\* PublicKey.DecodeBinary into the key p from the reader r.
PublicKeyDecodeBinary(p, r) ==
    LET pre == ReadN(r, 1) IN
    IF pre.r.err THEN [p |-> p, r |-> pre.r]
    ELSE LET prefix == pre.b[1] IN
         IF prefix = 0 THEN [p |-> p, r |-> pre.r]
         ELSE IF prefix \in {2, 3} THEN
             LET xs == ReadN(pre.r, CoordLen)
                 x == SetBytes(xs.b)
                 dec == decodeCompressedY(x, prefix % 2)
             IN  IF xs.r.err THEN [p |-> p, r |-> xs.r]
                 ELSE IF dec.err THEN [p |-> p, r |-> xs.r]
                 ELSE checkPoint(p, xs.r, x, dec.y)
         ELSE IF prefix = 4 THEN
             LET xs == ReadN(pre.r, CoordLen)
                 ys == ReadN(xs.r, CoordLen)
             IN  IF ys.r.err THEN [p |-> p, r |-> ys.r]
                 ELSE checkPoint(p, ys.r, SetBytes(xs.b), SetBytes(ys.b))
         ELSE [p |-> p, r |-> [pre.r EXCEPT !.err = TRUE]]

\* PublicKey.DecodeBytes.
PublicKeyDecodeBytes(p, data) == PublicKeyDecodeBinary(p, NewBinReader(data))

KeyByteStrings ==
    UNION {[1..n -> 0..MaxByte] : n \in 0..MaxKeyBytes}
CurvePoints ==
    {q \in (0..(FieldP - 1)) \X (0..(FieldP - 1)) :
        (q[2] * q[2] - (q[1] * q[1] * q[1] - 3 * q[1] + CurveB)) % FieldP = 0}
\* The keys decoded into: a new key, or one that holds a point already.
Receivers ==
    {FreshPublicKey} \cup {[set |-> TRUE, X |-> 1, Y |-> 2]}

InitPub ==
    \E bs \in KeyByteStrings : \E p \in Receivers :
        pub = [kind |-> "key", stage |-> "made", bytes |-> bs, into |-> p,
               p |-> p, rest |-> bs, err |-> FALSE]

DecodePublicKey ==
    /\ pub.kind = "key" /\ pub.stage = "made"
    /\ LET got == PublicKeyDecodeBytes(pub.into, pub.bytes) IN
       pub' = [pub EXCEPT !.stage = "decoded", !.p = got.p, !.rest = got.r.rest,
                          !.err = got.r.err]
    /\ UNCHANGED notPub

NextPub == DecodePublicKey

(***************************************************************************)
(* The messages of a handshaked peer and what the server does with them:   *)
(* the block queue, the replies written to the peer, the mempool.  The     *)
(* chain is the hashes of its blocks and of its transactions.              *)
(***************************************************************************)
Hashes == 1..NumHashes

InvTypes == {"tx", "block", "bad"}

\* InventoryType.Valid and the length check of handleMessage.
InvValid(typ, hashes) == typ # "bad" /\ Len(hashes) > 0

HashLists == {<<>>, <<1>>, <<2>>, <<1, 2>>}

Message(cmd, magic, typ, hashes, ok) ==
    [cmd |-> cmd, magic |-> magic, nonce |-> 1, valid |-> InvValid(typ, hashes),
     typ |-> typ, hashes |-> hashes, ok |-> ok]

\* ok of a tx message: what VerifyTx says of the transaction.
ServedMessages ==
    { Message("inv", magic, typ, hashes, TRUE) :
         magic \in BOOLEAN, typ \in InvTypes, hashes \in HashLists }
    \cup { Message("getdata", TRUE, typ, hashes, TRUE) :
              typ \in InvTypes, hashes \in HashLists }
    \cup { Message("block", TRUE, "block", <<h>>, TRUE) : h \in Hashes }
    \cup { Message("tx", TRUE, "tx", <<h>>, ok) : h \in Hashes, ok \in BOOLEAN }
    \cup { Message("getaddr", TRUE, "", <<>>, TRUE), Message("version", TRUE, "", <<>>, TRUE) }

HandshakedPeer ==
    [NewTCPPeer EXCEPT !.stage = "open", !.handShake = handShakeStages,
                       !.nonce = 2, !.addr = 1, !.started = TRUE]

Written(cmd, typ, hashes) == [cmd |-> cmd, typ |-> typ, hashes |-> hashes]

\* handleInvCmd: a getdata message with the type and the hashes of the inv.
handleInvCmd(inv) == <<Written("getdata", inv.typ, inv.hashes)>>

\* handleGetDataCmd: a tx or block message for each hash the chain gives.
handleGetDataCmd(s, inv) ==
    LET known == IF inv.typ = "tx" THEN s.txs \cup s.pool
                 ELSE IF inv.typ = "block" THEN s.blocks ELSE {}
        found == SelectSeq(inv.hashes, LAMBDA h : h \in known)
    IN  [i \in DOMAIN found |-> Written(inv.typ, inv.typ, <<found[i]>>)]

\* What the handler of the message writes to the peer.
writes(s, msg) ==
    CASE msg.cmd = "inv" -> handleInvCmd(msg)
      [] msg.cmd = "getdata" -> handleGetDataCmd(s, msg)
      [] msg.cmd = "getaddr" -> <<Written("addr", "", <<>>)>>
      [] OTHER -> <<>>

\* The server after handleMessage for a message of the handshaked peer.
serve(s, msg) ==
    LET h == handleMessage(HandshakedPeer, {}, msg) IN
    [s EXCEPT !.queue = IF "putBlock" \in h.did THEN Append(@, msg.hashes[1]) ELSE @,
              !.sent = IF "WriteMsg" \in h.did THEN @ \o writes(s, msg) ELSE @,
              !.last = <<[msg |-> msg, err |-> h.err]>>,
              !.served = @ + 1]

InitServed ==
    /\ \E blocks, txs \in SUBSET Hashes : \E pool \in SUBSET (Hashes \ txs) :
          srv = [blocks |-> blocks, txs |-> txs, pool |-> pool, verified |-> {},
                 queue |-> <<>>, sent |-> <<>>, last |-> <<>>, served |-> 0]

\* handleConn has decoded a message of the peer and calls handleMessage.
receive ==
    /\ srv.served < MaxServed
    /\ \E msg \in ServedMessages : srv' = serve(srv, msg)
    /\ UNCHANGED notServed

\* RelayTxn for a transaction that is no miner transaction: VerifyTx unless
\* the node has the transaction, TryAdd when it is valid.
relayed ==
    /\ srv.served < MaxServed
    /\ \E t \in Hashes, verified, ok \in BOOLEAN :
          LET has == t \in srv.txs \cup srv.pool IN
          srv' = [srv EXCEPT
                    !.verified = IF has THEN @ ELSE @ \cup {t},
                    !.pool = IF reachesTryAdd(FALSE, has, verified)
                             THEN TryAdd(@, t, ok) ELSE @,
                    !.last = <<>>,
                    !.served = @ + 1]
    /\ UNCHANGED notServed

NextServed == receive \/ relayed

\* The parts of the state a specification leaves alone.
SigUnused == sigvm = New /\ sigin = NoSigInput /\ sigret = NotRun
NetUnused ==
    /\ conn = [p \in PeerIds |-> NewTCPPeer]
    /\ peers = {} /\ registering = 0 /\ maxPeers = 1 /\ handled = NothingHandled

OrderUnused == InitOrder /\ msgs = <<>>
NumUnused == num = NoOperands
NoPub == [kind |-> "none"]
NoProto == [kind |-> "none"]
NoDump == [kind |-> "none"]
ToolUnused == pub = NoPub /\ proto = NoProto /\ dump = NoDump
PayloadUnused == srv = NoServed /\ wire = NoWire /\ ToolUnused
ServerUnused == InitLoop /\ InitRelay /\ OrderUnused /\ NumUnused /\ PayloadUnused

InitOfVM == InitVM /\ SigUnused /\ NetUnused /\ InitDisc /\ ServerUnused
InitOfSig == InitSig /\ InitVM /\ NetUnused /\ InitDisc /\ ServerUnused
InitOfNet == InitNet /\ InitVM /\ SigUnused /\ InitDisc /\ ServerUnused
InitOfDisc == InitDisc /\ InitVM /\ SigUnused /\ NetUnused /\ ServerUnused
InitOfLoop ==
    /\ Start /\ InitVM /\ SigUnused /\ InitRelay /\ OrderUnused /\ NumUnused
    /\ PayloadUnused
InitOfRelay ==
    /\ InitRelay /\ InitVM /\ SigUnused /\ NetUnused /\ InitDisc /\ InitLoop
    /\ OrderUnused /\ NumUnused /\ PayloadUnused
InitOfOrder ==
    /\ InitOrder /\ msgs \in Streams
    /\ InitVM /\ SigUnused /\ NetUnused /\ InitDisc /\ InitLoop /\ InitRelay
    /\ NumUnused /\ PayloadUnused
InitOfNum ==
    /\ InitNum /\ InitVM /\ SigUnused /\ NetUnused /\ InitDisc /\ InitLoop
    /\ InitRelay /\ OrderUnused /\ PayloadUnused

SpecNet == InitOfNet /\ [][NextNet]_vars
SpecDisc == InitOfDisc /\ [][NextDisc]_vars
SpecLoop == InitOfLoop /\ [][NextLoop]_vars
SpecLoopFair == SpecLoop /\ FairLoop
SpecDial == InitOfLoop /\ [][NextDial]_vars
SpecRelay == InitOfRelay /\ [][NextRelay]_vars
SpecOrder == InitOfOrder /\ [][NextOrder]_vars
SpecNum == InitOfNum /\ [][NextNum]_vars

InitOfShift ==
    /\ InitShift /\ InitVM /\ SigUnused /\ NetUnused /\ InitDisc /\ InitLoop
    /\ InitRelay /\ OrderUnused /\ PayloadUnused
SpecShift == InitOfShift /\ [][NextShift]_vars

SpecVM == InitOfVM /\ [][NextVM]_vars

\* A user who loads a script, sets breakpoints and then calls Run again and
\* again: a call of Run is always made when no call is running, and the
\* loop of Run always takes its next turn.
NextRun == DoLoad \/ DoAddBreakPoint \/ DoRun \/ RunLoop
FairRun == WF_vars(DoRun) /\ WF_vars(RunLoop)
SpecRun == InitOfVM /\ [][NextRun]_vars /\ FairRun

InitOfCall == InitCall /\ SigUnused /\ NetUnused /\ InitDisc /\ ServerUnused
SpecCall == InitOfCall /\ [][NextCall]_vars

InitOfColl == InitColl /\ SigUnused /\ NetUnused /\ InitDisc /\ ServerUnused
SpecColl == InitOfColl /\ [][NextColl]_vars

InitOfEqual == InitEqual /\ SigUnused /\ NetUnused /\ InitDisc /\ ServerUnused
SpecEqual == InitOfEqual /\ [][NextEqual]_vars

InitOfClone == InitClone /\ SigUnused /\ NetUnused /\ InitDisc /\ ServerUnused
SpecClone == InitOfClone /\ [][NextClone]_vars

InitOfConv == InitConv /\ SigUnused /\ NetUnused /\ InitDisc /\ ServerUnused
SpecConv == InitOfConv /\ [][NextConv]_vars

InitOfIndex == InitIndex /\ SigUnused /\ NetUnused /\ InitDisc /\ ServerUnused
SpecIndex == InitOfIndex /\ [][NextIndex]_vars

InitOfKey == InitKey /\ SigUnused /\ NetUnused /\ InitDisc /\ ServerUnused

InitOfServed ==
    /\ InitServed /\ wire = NoWire /\ ToolUnused
    /\ InitVM /\ SigUnused /\ NetUnused /\ InitDisc /\ InitLoop /\ InitRelay
    /\ OrderUnused /\ NumUnused
SpecServed == InitOfServed /\ [][NextServed]_vars

InitOfWire ==
    /\ InitWire /\ srv = NoServed /\ ToolUnused
    /\ InitVM /\ SigUnused /\ NetUnused /\ InitDisc /\ InitLoop /\ InitRelay
    /\ OrderUnused /\ NumUnused
SpecWire == InitOfWire /\ [][NextWire]_vars

(***************************************************************************)
(* The protocol loop of a peer (startProtocol) after the first getheaders: *)
(* the timer, the tick, an address request passed on and the end of the    *)
(* peer.  The chain is its block height and its header height; the hash    *)
(* of the header at a height is HeaderHash of it.  A write to the peer     *)
(* fails or not (the peer may be gone).                                    *)
(***************************************************************************)
maxBlockBatch == 200
MaxBlockHeight == 2
MaxTicks == 2

HeaderHash(height) == 1000 + height

BlockHeights == 0..MaxBlockHeight
HeaderHeightsOver(b) ==
    {b, b + 1, b + 2, b + maxBlockBatch - 1, b + maxBlockBatch,
     b + maxBlockBatch + 1}
StartHeights(b, h) == {0, b, b + 1, h, h + 1}

GetData(hashes) == [cmd |-> "getdata", hashes |-> hashes]
GetHeaders(start) == [cmd |-> "getheaders", hashes |-> <<start>>]
GetAddr == [cmd |-> "getaddr", hashes |-> <<>>]

\* The loop of requestBlocks: the heights whose hashes it collects.
\* The same loop without the bound of the batch.
hashesUnbounded(b, h) == [i \in 1..(h - b) |-> HeaderHash(b + i)]

hashesOfBatch(b, h) ==
    [i \in 1..(IF h - b < maxBlockBatch THEN h - b ELSE maxBlockBatch) |->
        HeaderHash(b + i)]

\* Server.requestHeaders and Server.requestBlocks: the message written to
\* the peer, if any.
requestHeaders(c) == <<GetHeaders(HeaderHash(c.header))>>

requestBlocks(c) ==
    LET hashes == hashesOfBatch(c.block, c.header) IN
    IF Len(hashes) > 0 THEN <<GetData(hashes)>>
    ELSE IF c.header < c.start THEN requestHeaders(c)
    ELSE <<>>

\* What the case of timer.C writes.
tickWrites(c) == IF c.start > c.block THEN requestBlocks(c) ELSE <<>>

InitProto ==
    \E b \in BlockHeights : \E h \in HeaderHeightsOver(b) :
       \E start \in StartHeights(b, h) :
          proto = [kind |-> "proto", block |-> b, header |-> h, start |-> start,
                   timer |-> "armed", running |-> TRUE, ticks |-> 0,
                   asked |-> FALSE, wrote |-> <<>>, failed |-> FALSE,
                   unregistered |-> FALSE]

\* The end of one turn of the loop: err is whether the turn set an error.
protoTurn(c, err) ==
    IF err
    THEN [c EXCEPT !.running = FALSE, !.timer = "stopped", !.failed = TRUE,
                   !.unregistered = TRUE]
    ELSE c

\* The timer expires.
timerFires ==
    /\ proto.kind = "proto" /\ proto.running /\ proto.timer = "armed"
    /\ proto.ticks < MaxTicks
    /\ proto' = [proto EXCEPT !.timer = "fired"]
    /\ UNCHANGED notProto

\* case <-timer.C.
protoTick ==
    /\ proto.kind = "proto" /\ proto.running /\ proto.timer = "fired"
    /\ \E ok \in BOOLEAN :
          LET msgsOut == tickWrites(proto)
              err == msgsOut # <<>> /\ ~ok
              c1 == [proto EXCEPT !.ticks = @ + 1,
                                  !.wrote = IF err THEN <<>> ELSE msgsOut,
                                  !.timer = IF err THEN "expired" ELSE "armed"]
          IN  proto' = protoTurn(c1, err)
    /\ UNCHANGED notProto

\* case m := <-s.addrReq.
protoAddrReq ==
    /\ proto.kind = "proto" /\ proto.running /\ ~proto.asked
    /\ \E ok \in BOOLEAN :
          proto' = protoTurn([proto EXCEPT !.asked = TRUE,
                                           !.wrote = IF ok THEN <<GetAddr>> ELSE <<>>],
                             ~ok)
    /\ UNCHANGED notProto

\* case err = <-p.Done().
protoDone ==
    /\ proto.kind = "proto" /\ proto.running
    /\ proto' = protoTurn([proto EXCEPT !.wrote = <<>>], TRUE)
    /\ UNCHANGED notProto

\* The chain takes a header or a block from some peer.
chainGrows ==
    /\ proto.kind = "proto" /\ proto.running
    /\ \/ /\ proto.header <= proto.block + 1
          /\ proto' = [proto EXCEPT !.header = @ + 1]
       \/ /\ proto.block < proto.header /\ proto.block < MaxBlockHeight
          /\ proto' = [proto EXCEPT !.block = @ + 1]
    /\ UNCHANGED notProto

NextProto == timerFires \/ protoTick \/ protoAddrReq \/ protoDone \/ chainGrows

InitOfProto ==
    /\ InitProto /\ pub = NoPub /\ dump = NoDump
    /\ srv = NoServed /\ wire = NoWire
    /\ InitVM /\ SigUnused /\ NetUnused /\ InitDisc /\ InitLoop /\ InitRelay
    /\ OrderUnused /\ NumUnused
SpecProto == InitOfProto /\ [][NextProto]_vars

(***************************************************************************)
(* The commands db dump and db restore.  A chain is its block height (the  *)
(* block of height 0 is the genesis block every chain starts with), a      *)
(* block is its height, and the file is the count written first and the    *)
(* block records after it.  The options are small numbers (the code holds  *)
(* them in 32 bits).                                                       *)
(***************************************************************************)
MaxChainHeight == 4
MaxOption == 5

NoFile == [header |-> <<>>, records |-> <<>>]

\* The loop "for i := skip + 1; i <= count; i++" of dumpDB: the heights of
\* the blocks it writes.
dumpedHeights(skip, count) ==
    [k \in 1..(IF count > skip THEN count - skip ELSE 0) |-> skip + k]

\* dumpDB on a chain of the given height: the file and whether it failed.
dumpDB(chainHeight, skip, count0) ==
    IF skip + count0 > chainHeight THEN [err |-> TRUE, file |-> NoFile]
    ELSE LET count == IF count0 = 0 THEN chainHeight - skip ELSE count0 IN
         [err |-> FALSE,
          file |-> [header |-> <<count>>, records |-> dumpedHeights(skip, count)]]

\* Blockchain.AddBlock takes the block that follows the last one.
AddBlockFails(chainHeight, b) == b # chainHeight + 1

\* The second loop of restoreDB: record i + 1 is decoded and added while
\* i < count; a missing record is a read error.
RECURSIVE restoreFrom(_, _, _, _)
restoreFrom(chainHeight, records, i, count) ==
    IF i >= count THEN [err |-> FALSE, height |-> chainHeight]
    ELSE IF i + 1 > Len(records) THEN [err |-> TRUE, height |-> chainHeight]
    ELSE IF AddBlockFails(chainHeight, records[i + 1])
    THEN [err |-> TRUE, height |-> chainHeight]
    ELSE restoreFrom(chainHeight + 1, records, i + 1, count)

\* restoreDB of a file into a chain of the given height.
restoreDB(chainHeight, file, skip, count0) ==
    IF file.header = <<>> THEN [err |-> TRUE, height |-> chainHeight]
    ELSE LET allBlocks == file.header[1]
             count == IF count0 = 0 THEN allBlocks ELSE count0
         IN  IF skip + count0 > allBlocks THEN [err |-> TRUE, height |-> chainHeight]
             ELSE IF skip > Len(file.records)
             THEN [err |-> TRUE, height |-> chainHeight]
             ELSE restoreFrom(chainHeight, file.records, skip, count)

InitDump ==
    \E h \in 0..MaxChainHeight : \E skip \in 0..MaxOption : \E count \in 0..MaxOption :
        dump = [kind |-> "dump", stage |-> "made", chain |-> h, skip |-> skip,
                count |-> count, file |-> NoFile, err |-> FALSE,
                into |-> skip, restored |-> skip, rerr |-> FALSE]

\* db dump --skip --count.
DoDumpDB ==
    /\ dump.kind = "dump" /\ dump.stage = "made"
    /\ LET r == dumpDB(dump.chain, dump.skip, dump.count) IN
       dump' = [dump EXCEPT !.stage = "dumped", !.file = r.file, !.err = r.err]
    /\ UNCHANGED notDump

\* db restore of the file, with default options, into a chain that ends
\* where the dump begins.
DoRestoreDB ==
    /\ dump.kind = "dump" /\ dump.stage = "dumped" /\ ~dump.err
    /\ LET r == restoreDB(dump.into, dump.file, 0, 0) IN
       dump' = [dump EXCEPT !.stage = "restored", !.restored = r.height,
                            !.rerr = r.err]
    /\ UNCHANGED notDump

NextDump == DoDumpDB \/ DoRestoreDB

InitOfDump ==
    /\ InitDump /\ pub = NoPub /\ proto = NoProto
    /\ srv = NoServed /\ wire = NoWire
    /\ InitVM /\ SigUnused /\ NetUnused /\ InitDisc /\ InitLoop /\ InitRelay
    /\ OrderUnused /\ NumUnused
SpecDump == InitOfDump /\ [][NextDump]_vars

InitOfPub ==
    /\ InitPub /\ proto = NoProto /\ dump = NoDump
    /\ srv = NoServed /\ wire = NoWire
    /\ InitVM /\ SigUnused /\ NetUnused /\ InitDisc /\ InitLoop /\ InitRelay
    /\ OrderUnused /\ NumUnused
SpecPub == InitOfPub /\ [][NextPub]_vars
SpecKey == InitOfKey /\ [][NextKey]_vars

InitOfCount == InitCount /\ SigUnused /\ NetUnused /\ InitDisc /\ ServerUnused
SpecCount == InitOfCount /\ [][NextCount]_vars

InitOfParams == InitParams /\ SigUnused /\ NetUnused /\ InitDisc /\ ServerUnused
SpecParams == InitOfParams /\ [][NextParams]_vars

SpecSig == InitOfSig /\ [][NextSig]_vars

(***************************************************************************)
(* What a signature check should yield.                                    *)
(***************************************************************************)
\* The signature verifies against the checked hash under the key.
Verifies(key, sig) == key \in GoodKeys /\ SigLen(sig) >= 64 /\ Signer(sig) = key

\* The signatures match, in order, a strictly increasing subsequence of the keys.
Matches(sigs, keys) ==
    \E f \in [DOMAIN sigs -> DOMAIN keys] :
        /\ \A a, b \in DOMAIN sigs : a < b => f[a] < f[b]
        /\ \A a \in DOMAIN sigs : Verifies(keys[f[a]], sigs[a])

AllGood(keys) == \A i \in DOMAIN keys : keys[i] \in GoodKeys

(***************************************************************************)
(* C7.  With the checked hash set, well-formed keys and no more signatures *)
(* than keys, CHECKMULTISIG pushes true exactly when the signatures match, *)
(* in order, a strictly increasing subsequence of the keys, and false      *)
(* otherwise.                                                              *)
(***************************************************************************)
C7_MultisigOrderedMatching ==
    /\ sigret.done /\ sigin.op = "CHECKMULTISIG" /\ sigvm.checkhash
    /\ Len(sigin.sigs) >= 1 /\ Len(sigin.sigs) <= Len(sigin.keys)
    /\ AllGood(sigin.keys)
    => /\ ~HasFailed(sigvm)
       /\ sigvm.stacks[1] = <<BoolItem(Matches(sigin.sigs, sigin.keys))>>

(***************************************************************************)
(* C8.  With the checked hash set and a well-formed key, CHECKSIG leaves   *)
(* exactly one boolean, true iff the signature verifies, and no fault,     *)
(* whatever the signature bytes; without a checked hash it faults.         *)
(***************************************************************************)
C8_ChecksigPushesBoolean ==
    /\ sigret.done /\ sigin.op = "CHECKSIG"
    /\ Len(sigin.sigs) = 1 /\ Len(sigin.keys) = 1 /\ sigin.keys[1] \in GoodKeys
    => IF sigvm.checkhash
       THEN /\ ~HasFailed(sigvm) /\ sigret.err = NoErr
            /\ sigvm.stacks[1] = <<BoolItem(Verifies(sigin.keys[1], sigin.sigs[1]))>>
       ELSE HasFailed(sigvm) /\ sigret.err # NoErr

(***************************************************************************)
(* The items the VM holds: the elements of the evaluation and alt stacks   *)
(* of the VM and of every context of the invocation stack, and the         *)
(* elements of every collection reachable from them, each stack and each   *)
(* collection taken once.                                                  *)
(***************************************************************************)
Range(s) == {s[i] : i \in DOMAIN s}

LiveStacks(vv) ==
    {vv.estack, vv.astack} \cup {c.estack : c \in Range(vv.istack)}
                           \cup {c.astack : c \in Range(vv.istack)}

CollsIn(s) == {it.v : it \in {x \in Range(s) : IsColl(x)}}

RECURSIVE Reachable(_, _)
Reachable(vv, S) ==
    LET T == S \cup UNION {CollsIn(vv.heap[id]) : id \in S} IN
    IF T = S THEN S ELSE Reachable(vv, T)

RECURSIVE SumLen(_, _)
SumLen(f, S) ==
    IF S = {} THEN 0
    ELSE LET x == CHOOSE y \in S : TRUE IN Len(f[x]) + SumLen(f, S \ {x})

ActualCount(vv) ==
    LET stacks == LiveStacks(vv)
        colls == Reachable(vv, UNION {CollsIn(vv.stacks[sid]) : sid \in stacks})
    IN  SumLen(vv.stacks, stacks) + SumLen(vv.heap, colls)

(***************************************************************************)
(* C1.  After every executed instruction the VM holds at most MaxStackSize *)
(* items on the stacks of all its contexts (collections counted with their *)
(* elements), or the instruction has put the VM in fault.                  *)
(***************************************************************************)
C1_StackLimitAllContexts ==
    exec.live /\ ActualCount(v) > MaxStackSize => HasFailed(v)

(***************************************************************************)
(* C2.  No stepping operation lets a panic escape to its caller.           *)
(***************************************************************************)
C2_NoPanicEscapes == ~ret.escaped

(***************************************************************************)
(* C3.  When the execution of an instruction fails the VM is in fault and  *)
(* the error carries the ip and the opcode of the instruction fetched.     *)
(***************************************************************************)
C3_ErrorNamesFetchedInstruction ==
    exec.live /\ exec.err # NoErr =>
        /\ HasFailed(v)
        /\ exec.err.ip = exec.ip
        /\ exec.err.op = exec.op

(***************************************************************************)
(* C4.  Run on a VM in fault state returns an error and changes nothing;   *)
(* Run without a program sets the state to fault and returns an error;     *)
(* Run returns only in halt, fault or break state.                         *)
(***************************************************************************)
RunReturnsError == call'.fn = "none" /\ ret'.fn = "Run" /\ ret'.err # NoErr

RunReturns == (DoRun \/ RunLoop) /\ call'.fn = "none"

\* As stated: whenever the fault flag is set, Run changes no flag.
C4_RunInFaultChangesNothing ==
    [][DoRun /\ HasFailed(v) => v' = v /\ ~exec'.live /\ RunReturnsError]_vars

\* With a program loaded; without one the state is set to fault whatever
\* flags it had.
C4_Run ==
    [][/\ DoRun /\ Ready(v) /\ HasFailed(v) =>
            v' = v /\ ~exec'.live /\ RunReturnsError
       /\ DoRun /\ ~Ready(v) =>
            /\ v' = [v EXCEPT !.state = faultState]
            /\ ~exec'.live /\ RunReturnsError
       /\ RunReturns => HasFailed(v') \/ HasHalted(v') \/ AtBreakpoint(v')]_vars

C4_RunRefusedInFault ==
    /\ ret.fn = "Run" /\ ret.err = errorsNew("VM has failed")
    /\ Ready(v) /\ HasFailed(v) /\ Idle

(***************************************************************************)
(* C5.  A peer that has not completed the handshake gets only version and  *)
(* verack processed: every other command is answered with an error and     *)
(* does nothing to the chain, the block queue or discovery; the protocol   *)
(* loop of a peer is started only by verack; a handshaked peer's version   *)
(* or verack is answered with an error.                                    *)
(***************************************************************************)
C5_HandshakeGatesCommands ==
    handled.p # 0 =>
        /\ ~handled.was /\ handled.cmd \notin {"version", "verack"} =>
               handled.err /\ handled.did = {}
        /\ "startProtocol" \in handled.did => handled.cmd = "verack" /\ ~handled.was
        /\ handled.was /\ handled.cmd \in {"version", "verack"} =>
               handled.err /\ handled.did = {}

C5_CommandRefusedDuringHandshake ==
    /\ handled.p # 0 /\ ~handled.was /\ handled.cmd = "block" /\ handled.err
    /\ "versionReceived" \in conn[handled.p].handShake

(***************************************************************************)
(* C6.  No two peers that have completed the handshake have the same       *)
(* version nonce, and none has the nonce of the server.                    *)
(***************************************************************************)
Connected(p) == p \in peers /\ conn[p].stage = "open" /\ Handshaked(conn[p])

C6_NoncesDistinct ==
    \A p, q \in PeerIds :
        Connected(p) /\ Connected(q) =>
            /\ conn[p].nonce # ServerId
            /\ p # q => conn[p].nonce # conn[q].nonce

(***************************************************************************)
(* C9.  No address is in more than one of the unconnected, connected and   *)
(* bad sets, and every unconnected address has between 1 and connRetries   *)
(* retries left.                                                           *)
(***************************************************************************)
Unconnected == {a \in Addrs : d.unconnectedAddrs[a] # 0}

InPool(dd, a) == \E i \in 1..Len(dd.pool) : dd.pool[i] = a

C10_FailedDialRetriesAndRequeues ==
    [][\A a \in Addrs :
          /\ failed'[a] <= connRetries
          /\ failed'[a] = failed[a] + 1 =>
                /\ d'.unconnectedAddrs[a] = d.unconnectedAddrs[a] - 1
                /\ d'.unconnectedAddrs[a] > 0 => InPool(d', a)
                /\ d'.unconnectedAddrs[a] = 0 => a \in d'.badAddrs
          /\ a \in d.badAddrs =>
                /\ a \in d'.badAddrs /\ d'.unconnectedAddrs[a] = 0
                /\ ~InPool(d', a) /\ ~BagIn(a, dialing')]_vars

(***************************************************************************)
(* C11.  The address of a dialed peer enters the connected set only when   *)
(* the peer has completed its handshake; when the server loop completes    *)
(* the unregister case for that peer the address is out of the connected   *)
(* set and in the unconnected set with connRetries retries; and with the   *)
(* peer gone the address is not in the connected set, whenever the dial    *)
(* worker runs its registerConnectedAddr.                                  *)
(***************************************************************************)
PeerGone(c) == link[c].task = "done" /\ c \notin peers /\ dropping = 0

C11_ConnectedOnlyWhilePeerLives ==
    /\ [][PeerAddr(Dialed) \notin d.connectedAddrs
             /\ PeerAddr(Dialed) \in d'.connectedAddrs
           => link[Dialed].hs]_vars
    /\ [][loopBackFill /\ dropping = PeerAddr(Dialed)
           => /\ PeerAddr(Dialed) \notin d'.connectedAddrs
              /\ d'.unconnectedAddrs[PeerAddr(Dialed)] = connRetries]_vars
    /\ [](PeerGone(Dialed) => PeerAddr(Dialed) \notin d.connectedAddrs)

(***************************************************************************)
(* C15.  The quit case of the server loop disconnects every registered     *)
(* peer, and once the loop has returned every task of every connection     *)
(* (handleConn and startProtocol) eventually terminates.                   *)
(***************************************************************************)
Terminated(c) ==
    link[c].task \in {"none", "done"} /\ link[c].proto \in {"none", "done"}

C15_TasksTerminateAfterShutdown ==
    /\ [][loopQuit => \A c \in peers : ~link'[c].open]_vars
    /\ [](loop = "returned" => <>(\A c \in Conns : Terminated(c)))

(***************************************************************************)
(* C16.  A registration that takes the registry above MaxPeers closes the  *)
(* connection of a registered peer that was still open, and whenever every *)
(* registered peer is open with no unregister signal under way the         *)
(* registry holds at most MaxPeers peers.                                  *)
(***************************************************************************)
Settled(c) ==
    link[c].open /\ link[c].task = "read" /\ link[c].proto # "unregister"

C16_AtMostMaxPeers ==
    /\ [][\A c \in Conns :
             loopRegister(c) /\ Cardinality(peers') > maxPeers
                => \E p \in peers' : link[p].open /\ ~link'[p].open]_vars
    /\ []((\A c \in peers : Settled(c)) => Cardinality(peers) <= maxPeers)

RelayPeer(p) == pv[p].hs /\ pv[p].version = "relay"

C13_InvToHandshakedRelayPeers ==
    /\ [][\A p \in PeerIds :
             RelayDirectly(p) /\ p \in rt'.sent => RelayPeer(p)]_vars
    /\ [][relayReturns =>
             \A p \in rt.start \cap peers : RelayPeer(p) => p \in rt.sent]_vars

(***************************************************************************)
(* C14.  When handleMessage runs for a message of a peer, the effect on    *)
(* the chain of every earlier message of that peer is complete, and the    *)
(* effects are complete in the order the messages arrived.                 *)
(***************************************************************************)
C14_HandledInArrivalOrder ==
    /\ busy => \A k \in adding : k >= cur
    /\ \A i, j \in DOMAIN effects : i < j => effects[i] < effects[j]

(***************************************************************************)
(* C17.  The range of RelayTxn over the registry runs with the read lock   *)
(* held, and never while the server loop is writing the registry.          *)
(***************************************************************************)
C17_RegistryAccessLocked ==
    /\ rt.pc = "relaying" => "RelayTxn" \in rlocked
    /\ ~(rt.pc = "relaying" /\ lk.op # "none")

(***************************************************************************)
(* C18.  An integer that ADD, SUB, MUL, INC, DEC, SHL, NEGATE or ABS       *)
(* pushes fits in a signed integer of 256 bits, and an operation whose     *)
(* mathematical result does not fit puts the VM in fault.                  *)
(***************************************************************************)
\* -2^255 <= c <= 2^255 - 1
FitsSigned256(c) ==
    /\ c.hi < 2 \/ (c.hi = 2 /\ c.lo < 0)
    /\ c.hi > 0 - 2 \/ (c.hi = 0 - 2 /\ c.lo >= 0)

\* The mathematical result of the opcode executed last.
Mathematical ==
    CASE num.op = "ADD" -> BigAdd(num.a, num.b)
      [] num.op = "SUB" -> BigSub(num.a, num.b)
      [] num.op = "MUL" -> BigMul(num.a, num.b)
      [] num.op = "INC" -> BigAdd(num.a, Big(0, 1))
      [] num.op = "DEC" -> BigAdd(num.a, Big(0, 0 - 1))
      [] num.op = "NEGATE" -> BigNeg(num.a)
      [] num.op = "ABS" -> BigAbs(num.a)
      [] num.op = "SHL" -> BigLsh(num.a, num.b.lo)
      [] OTHER -> Big(0, 0)

C18_IntegersFitSigned256 ==
    /\ num.out.pushed => FitsSigned256(num.out.val)
    /\ (num.done /\ ~FitsSigned256(Mathematical)) => num.out.fault

(***************************************************************************)
(* C19: after any sequence of instructions the invocation stack holds at   *)
(* most MaxInvocationStackSize contexts.  CALL, APPCALL, CALLI, CALLE and  *)
(* CALLED executed at that depth put the VM in fault and push nothing;     *)
(* TAILCALL, CALLET and CALLEDT leave the depth as it was.                 *)
(***************************************************************************)
CallOps == {"CALL", "APPCALL", "CALLI", "CALLE", "CALLED"}
TailOps == {"TAILCALL", "CALLET", "CALLEDT"}

\* The opcode the next Step fetches.
Fetched == IF Ready(v) THEN Next(Context(v)).ins.op ELSE ""

C19_InvocationDepthBounded ==
    /\ [](Len(v.istack) <= MaxInvocationStackSize)
    /\ [][exec'.live =>
            /\ (Fetched \in CallOps /\ Len(v.istack) = MaxInvocationStackSize)
                  => HasFailed(v') /\ v'.istack = [v.istack EXCEPT
                         ![Len(v.istack)] = Next(Context(v)).c]
            /\ Fetched \in TailOps => Len(v'.istack) = Len(v.istack)]_vars

\* A call was executed at full depth: fault, and the depth is as before.
C19_CallRefusedAtLimit ==
    /\ exec.live /\ exec.op \in CallOps
    /\ HasFailed(v) /\ Len(v.istack) = MaxInvocationStackSize
    /\ \A i \in DOMAIN v.istack : v.istack[i].rvcount = -1
    /\ exec.err.msg = "panic"

(***************************************************************************)
(* C20: no collection ever has more than MaxArraySize elements; an         *)
(* instruction that asks for a collection of more elements, or that would  *)
(* grow one that is full, puts the VM in fault; SETITEM on a key that a    *)
(* full map has replaces the value.                                        *)
(***************************************************************************)
Top(n) == Peek(v, v.estack, n)
Has3(n) == Ready(v) /\ StackLen(v, v.estack) >= n

\* The integer of the item is an element count above the limit.
TooMany(it) == ~IsColl(it) /\ (High(it) > 0 \/ it.v > MaxArraySize)

IsFull(it) == Len(v.heap[it.v]) = MaxArraySize

Exceeds ==
    \/ Fetched \in {"NEWARRAY", "NEWSTRUCT", "PACK"} /\ Has3(1) /\ TooMany(Top(0))
    \/ Fetched = "APPEND" /\ Has3(2) /\ Top(1).t \in {"array", "struct"}
          /\ IsFull(Top(1))
    \/ Fetched = "SETITEM" /\ Has3(3) /\ Top(2).t = "map" /\ ~IsColl(Top(1))
          /\ IsFull(Top(2)) /\ ~Has(v, Top(2).v, Top(1))

Replaces ==
    /\ Fetched = "SETITEM" /\ Has3(3) /\ Top(2).t = "map" /\ ~IsColl(Top(1))
    /\ IsFull(Top(2)) /\ Has(v, Top(2).v, Top(1))

WithinLimit == \A id \in DOMAIN v.heap : Len(v.heap[id]) <= MaxArraySize

C20_CollectionsWithinLimit ==
    /\ []WithinLimit
    /\ [][exec'.live =>
            /\ Exceeds => HasFailed(v')
            /\ Replaces =>
                  /\ ~HasFailed(v')
                  /\ v'.heap[Top(2).v][IndexOf(v, Top(2).v, Top(1))] = Top(0)
                  /\ Len(v'.heap[Top(2).v]) = MaxArraySize]_vars

(***************************************************************************)
(* C21: SHL and SHR fault exactly when the count is below -256 or above    *)
(* 256, or the operand or the result does not fit 256 bits; every count    *)
(* from -256 to 256 is accepted, and with the count zero the operand stays *)
(* on the stack as it was.  A negative count shifts the other way.         *)
(***************************************************************************)
\* The integer fits a signed integer of MaxBigIntegerSizeBits bits.
PowFits(x) ==
    \/ PowAbsBits(x) < MaxBigIntegerSizeBits
    \/ x.m < 0 /\ PowAbsBits(x) = MaxBigIntegerSizeBits /\ (0 - x.m) \in {1, 2}

CountInRange(c) == c.hi = 0 /\ c.lo >= minSHLArg /\ c.lo <= maxSHLArg

\* The value of the shift, for a count in range.
Shifted(op, x, n) ==
    IF (op = "SHL") = (n >= 0)
    THEN PowLsh(x, IF n >= 0 THEN n ELSE 0 - n).val
    ELSE PowRsh(x, IF n >= 0 THEN n ELSE 0 - n).val

ShiftMustFault ==
    \/ ~CountInRange(num.b)
    \/ num.b.lo # 0 /\ ~PowFits(num.a.val)
    \/ num.b.lo # 0 /\ ~PowFits(Shifted(num.op, num.a.val, num.b.lo))

C21_ShiftFaultsExactly ==
    num.done /\ num.op \in {"SHL", "SHR"} =>
       /\ num.out.fault <=> ShiftMustFault
       /\ (num.b.hi = 0 /\ num.b.lo = 0) => num.out = ShiftDone(<<num.a>>)

(***************************************************************************)
(* C22: EQUAL pops two items and pushes true for two arrays, or two maps,  *)
(* iff they are the same object, and for every other pair iff the two are  *)
(* equal by value, compared deeply; with fewer than two items it faults.   *)
(***************************************************************************)
\* Equality by value: the same type, the same number, string or boolean,
\* or collections of the same kind whose elements are equal by value.
RECURSIVE ValueEqual(_, _, _)
ValueEqual(vv, x, y) ==
    IF x.t # y.t THEN FALSE
    ELSE IF ~IsColl(x) THEN x.v = y.v
    ELSE IF x.v = y.v THEN TRUE
    ELSE IF x.t = "map"
    THEN /\ Len(vv.keys[x.v]) = Len(vv.keys[y.v])
         /\ \A i \in DOMAIN vv.keys[x.v] :
               \E j \in DOMAIN vv.keys[y.v] :
                  /\ vv.keys[x.v][i].t = vv.keys[y.v][j].t
                  /\ vv.keys[x.v][i].v = vv.keys[y.v][j].v
                  /\ ValueEqual(vv, vv.heap[x.v][i], vv.heap[y.v][j])
    ELSE /\ Len(vv.heap[x.v]) = Len(vv.heap[y.v])
         /\ \A i \in DOMAIN vv.heap[x.v] :
               ValueEqual(vv, vv.heap[x.v][i], vv.heap[y.v][i])

EqualExpected(a, b) ==
    IF a.t = b.t /\ a.t \in {"array", "map"} THEN a.v = b.v
    ELSE ValueEqual(v, a, b)

C22_EqualByIdentityOrValue ==
    [][exec'.live /\ Fetched = "EQUAL" =>
         IF Has3(2)
         THEN /\ ~HasFailed(v')
              /\ v'.stacks[v.estack] =
                    Append(SubSeq(v.stacks[v.estack], 1, StackLen(v, v.estack) - 2),
                           BoolItem(EqualExpected(Top(1), Top(0))))
         ELSE HasFailed(v')]_vars

(***************************************************************************)
(* APPEND of a struct stores a copy.                                       *)
(***************************************************************************)
\* The value of an item, the structs taken by what they hold and the arrays
\* and maps by which object they are.
RECURSIVE StructValue(_, _)
StructValue(heap, it) ==
    IF it.t = "struct"
    THEN [t |-> "struct",
          elems |-> [i \in DOMAIN heap[it.v] |-> StructValue(heap, heap[it.v][i])]]
    ELSE it

\* The collection and the value at the bottom of the stack.
CloneC == v.stacks[1][1]
CloneS == v.stacks[1][2]

AppendedTo == Len(v.heap[CloneC.v]) = Len(CloneHeap[CloneC.v]) + 1
Stored == v.heap[CloneC.v][Len(v.heap[CloneC.v])]

\* C23: after APPEND of a struct S to an array or struct C the element held
\* by C is a struct object of its own with the value S had, whatever APPEND,
\* SETITEM, REMOVE or REVERSE does afterwards to S or to a struct in S
\* through another reference; an appended array or map is held by reference.
C23_AppendStoresCopyOfStruct ==
    AppendedTo =>
       IF CloneS.t = "struct"
       THEN /\ Stored.t = "struct"
            /\ Stored.v \notin DOMAIN CloneHeap
            /\ StructValue(v.heap, Stored) = StructValue(CloneHeap, CloneS)
       ELSE Stored = CloneS

\* S is appended and then changed in place; C holds the value S had.
C23_StructChangedAfterAppend ==
    /\ AppendedTo
    /\ CloneS.t = "struct"
    /\ StructValue(v.heap, CloneS) # StructValue(CloneHeap, CloneS)
    /\ StructValue(v.heap, Stored) = StructValue(CloneHeap, CloneS)

(***************************************************************************)
(* NEWARRAY and NEWSTRUCT.                                                 *)
(***************************************************************************)
NewKind == IF Fetched = "NEWARRAY" THEN "array" ELSE "struct"
OtherKind == IF Fetched = "NEWARRAY" THEN "struct" ELSE "array"

\* What the instruction leaves: the operand replaced by the item and the
\* heap as given.
Leaves(it, heap) ==
    /\ ~HasFailed(v')
    /\ v'.stacks[v.estack] = [v.stacks[v.estack] EXCEPT ![StackLen(v, v.estack)] = it]
    /\ v'.heap = heap

\* The operand at the bottom of the stack and the collection made of it,
\* once the first instruction has made one.
ConvX == v.stacks[1][1]
ConvY == IF Len(v.stacks[2]) > 0 THEN v.stacks[2][1] ELSE v.stacks[1][2]
Converted ==
    /\ Ready(v) => Context(v).nextip >= 1
    /\ Len(v.stacks[2]) > 0 \/ Len(v.stacks[1]) >= 2

\* The collection the rest of the script changes and the other one.
ConvChangedOne == IF Len(v.stacks[2]) > 0 THEN ConvX ELSE ConvY
ConvOther == IF Len(v.stacks[2]) > 0 THEN ConvY ELSE ConvX

\* What a step of NEWARRAY or NEWSTRUCT does with its operand.
ConversionIsRight ==
    (Fetched \in {"NEWARRAY", "NEWSTRUCT"} /\ v' # v /\ Has3(1)) =>
        IF Top(0).t = NewKind THEN Leaves(Top(0), v.heap)
        ELSE IF Top(0).t = OtherKind
        THEN Leaves(Ref(NewKind, Len(v.heap) + 1), Append(v.heap, v.heap[Top(0).v]))
        ELSE IF Top(0).t # "map" /\ Top(0).v \in 0..MaxArraySize
        THEN Leaves(Ref(NewKind, Len(v.heap) + 1),
                    Append(v.heap, [i \in 1..Top(0).v |-> BoolItem(FALSE)]))
        ELSE TRUE

\* C24: NEWARRAY and NEWSTRUCT on an item that is no collection, of integer
\* value n in 0..1024, push a new collection of n items false; on a
\* collection of the other kind they push a new collection with a copy of
\* the elements, and an APPEND, REMOVE or REVERSE on one of the two is not
\* seen through the other; on a collection of the same kind they push the
\* same object.
C24_NewCollectionCopiesOrShares ==
    /\ [][ConversionIsRight]_vars
    /\ [](Converted /\ IsColl(ConvX) =>
            IF ConvY.t = ConvX.t THEN ConvY = ConvX
            ELSE /\ ConvY.v # ConvX.v
                 /\ v.heap[ConvOther.v] = ConvHeap[ConvX.v])

\* A collection made of one of the other kind, one of the two changed since.
C24_ChangedAfterConversion ==
    /\ Converted
    /\ IsColl(ConvX)
    /\ ConvY.t # ConvX.t
    /\ v.heap[ConvChangedOne.v] # ConvHeap[ConvX.v]
    /\ v.heap[ConvOther.v] = ConvHeap[ConvX.v]

(***************************************************************************)
(* PICKITEM and SETITEM on a byte array; PICKITEM on a map.                *)
(***************************************************************************)
IsByteArray(it) == it.t = "bytes" /\ "b" \in DOMAIN it

InRange(key, bs) == key.v >= 0 /\ key.v < Len(bs)

\* The byte array with byte i set to the integer of the item.
SetByte(arr, key, item) == BytesOf([arr.b EXCEPT ![key.v + 1] = item.v])

\* The stack below the n operands, each reference to the byte array showing
\* the byte array as it is after the instruction.
Below(n, arr, now) ==
    [i \in 1..(StackLen(v, v.estack) - n) |->
        IF v.stacks[v.estack][i] = arr THEN now ELSE v.stacks[v.estack][i]]

PickIsRight ==
    (Fetched = "PICKITEM" /\ v' # v /\ Has3(2) /\ ~IsColl(Top(0))) =>
        IF IsByteArray(Top(1))
        THEN IF InRange(Top(0), Top(1).b)
             THEN /\ ~HasFailed(v')
                  /\ v'.stacks[v.estack] =
                        Append(Below(2, Top(1), Top(1)), IntItem(Top(1).b[Top(0).v + 1]))
             ELSE HasFailed(v')
        ELSE (Top(1).t = "map" /\ ~Has(v, Top(1).v, Top(0))) => HasFailed(v')

SetIsRight ==
    (Fetched = "SETITEM" /\ v' # v /\ Has3(3) /\ ~IsColl(Top(1)) /\ IsByteArray(Top(2))) =>
        IF InRange(Top(1), Top(2).b)
        THEN /\ ~HasFailed(v')
             /\ v'.stacks[v.estack] = Below(3, Top(2), SetByte(Top(2), Top(1), Top(0)))
        ELSE HasFailed(v')

\* C25: on a byte array PICKITEM with an index i in range pushes byte i as
\* an integer and SETITEM with such an index sets byte i; an index out of
\* range faults; PICKITEM on a map with a key the map does not have faults.
C25_ByteArrayIndexing == [][PickIsRight /\ SetIsRight]_vars

(***************************************************************************)
(* The keys of maps.                                                       *)
(***************************************************************************)
\* The key an instruction is about to take, when the stack holds one.
KeyTaken ==
    IF Fetched = "SETITEM" THEN (IF Has3(2) THEN Top(1) ELSE IntItem(0))
    ELSE IF Has3(1) THEN Top(0) ELSE IntItem(0)

RefusesCollectionKey ==
    (Fetched \in {"SETITEM", "PICKITEM", "HASKEY", "REMOVE"} /\ v' # v
         /\ IsColl(KeyTaken)) =>
        /\ HasFailed(v')
        /\ v'.heap = v.heap
        /\ v'.keys = v.keys

Handles(cmd) ==
    /\ srv' # srv
    /\ srv'.last # <<>>
    /\ srv'.last[1].msg.cmd = cmd
    /\ srv'.last[1].msg.magic

Given == srv'.last[1].msg

NodeHas(h) == h \in srv.blocks \cup srv.txs \cup srv.pool

Missing(hashes) == SelectSeq(hashes, LAMBDA h : ~NodeHas(h))

\* C27: on an inv message with a valid type and hashes the server writes a
\* getdata message with those of the hashes that the node has neither in
\* its chain nor in its mempool, and none when it has them all.
C27_GetDataForMissingHashes ==
    [][(Handles("inv") /\ Given.valid) =>
          srv'.sent = IF Missing(Given.hashes) = <<>> THEN srv.sent
                      ELSE Append(srv.sent,
                                  Written("getdata", Given.typ, Missing(Given.hashes)))]_vars

\* C28: a block message of a handshaked peer is put into the block queue; a
\* tx message is given to VerifyTx and, when valid, added to the mempool.
C28_BlockQueuedTxPooled ==
    [][/\ Handles("block") => srv'.queue = Append(srv.queue, Given.hashes[1])
       /\ Handles("tx") =>
             /\ Given.hashes[1] \in srv'.verified
             /\ Given.ok => Given.hashes[1] \in srv'.pool]_vars

(***************************************************************************)
(* BackFill of one address.                                                *)
(***************************************************************************)
KnownAddr(a) ==
    a \in d.badAddrs \/ a \in d.connectedAddrs \/ d.unconnectedAddrs[a] > 0

\* The addresses BackFill is tried with: the tracked ones and one more.
Backfilled == Tracked \cup {NumTracked + 1}

FilledWith(a) == BackFill(d, <<a>>)

\* C29: BackFill of an address of the unconnected, connected or bad set
\* changes nothing (the sets, the retries left, the pool); an unknown
\* address gets connRetries retries and a place in the pool if one is free;
\* a second BackFill of the address changes nothing; BackFill can always be
\* taken, with a full pool too.
C29_BackFillSkipsKnown ==
    /\ \A a \in Backfilled :
          LET filled == FilledWith(a) IN
          /\ IF KnownAddr(a) THEN filled = d
             ELSE filled =
                     [d EXCEPT !.unconnectedAddrs[a] = connRetries,
                               !.pool = IF Len(@) < maxPoolSize THEN Append(@, a) ELSE @]
          /\ BackFill(filled, <<a>>) = filled
    /\ ENABLED handleAddrCmd

\* The pool is full and an address admitted since is not in it.
C29_AdmittedWithFullPool ==
    /\ Len(d.pool) = maxPoolSize
    /\ \E a \in Tracked :
          /\ d.unconnectedAddrs[a] = connRetries
          /\ \A i \in DOMAIN d.pool : d.pool[i] # a

(***************************************************************************)
(* The round trip of a payload.                                            *)
(***************************************************************************)
DecodedFresh ==
    /\ wire.stage = "decoded"
    /\ wire.into \in {FreshGetBlocks, FreshVersion, FreshPublishTX}

\* C30: for GetBlocks, Version and PublishTX, decoding the bytes the encoder
\* wrote into a fresh value gives a value equal to the original and reads
\* exactly the bytes written, whatever the fields hold.
C30_DecodeOfEncodeIsIdentity ==
    DecodedFresh => wire.y = wire.x /\ wire.rest = <<>> /\ ~wire.err

(***************************************************************************)
(* C31: PublicKey.DecodeBinary either reports an error or leaves a valid   *)
(* key: the point at infinity only when the bytes it read are the single   *)
(* byte 0x00, otherwise a point of the curve with both coordinates below   *)
(* the field modulus; and the bytes that encode no such point (no prefix,  *)
(* an unknown prefix, too few bytes, a compressed X with no Y, a point off *)
(* the curve, a coordinate not below the modulus) give an error.           *)
(***************************************************************************)
ValidKey(p) == IsInfinity(p) \/ <<p.X, p.Y>> \in CurvePoints
KeyBytesRead == SubSeq(pub.bytes, 1, Len(pub.bytes) - Len(pub.rest))
EncodesPoint(bs) ==
    /\ Len(bs) >= 1
    /\ \/ bs[1] = 0
       \/ /\ bs[1] \in {2, 3}
          /\ Len(bs) >= 1 + CoordLen
          /\ \E q \in CurvePoints : q[1] = SetBytes(SubSeq(bs, 2, 1 + CoordLen))
       \/ /\ bs[1] = 4
          /\ Len(bs) >= 1 + 2 * CoordLen
          /\ <<SetBytes(SubSeq(bs, 2, 1 + CoordLen)),
               SetBytes(SubSeq(bs, 2 + CoordLen, 1 + 2 * CoordLen))>> \in CurvePoints
C31_DecodedKeyIsValid ==
    (pub.kind = "key" /\ pub.stage = "decoded") =>
        /\ pub.err \/ ValidKey(pub.p)
        /\ (~pub.err /\ IsInfinity(pub.p)) => KeyBytesRead = <<0>>
        /\ ~EncodesPoint(pub.bytes) => pub.err
        /\ (~pub.err /\ pub.bytes[1] # 0) =>
               /\ pub.p.set
               /\ pub.p.X = SetBytes(SubSeq(pub.bytes, 2, 1 + CoordLen))
               /\ pub.bytes[1] \in {2, 3} => pub.p.Y % 2 = pub.bytes[1] % 2

(***************************************************************************)
(* C32: when StepOver returns without an error the VM is in the break,     *)
(* halt or fault state, never in the state without flags, and unless it    *)
(* halted, faulted or stands at a breakpoint its invocation stack is not   *)
(* deeper than it was when StepOver was called, whatever the state of the  *)
(* VM was at the call.                                                     *)
(***************************************************************************)
StepOverReturns ==
    /\ call.fn = "StepOver" /\ call'.fn = "none"
    /\ ret'.fn = "StepOver" /\ ret'.err = NoErr /\ ~ret'.escaped
StepOverIsRight ==
    StepOverReturns =>
        /\ v'.state # noneState
        /\ \/ HasHalted(v') \/ HasFailed(v')
           \/ Ready(v') /\ atBreakPoint(Context(v'))
           \/ Len(v'.istack) <= call.expSize
C32_StepOverDoesNotEnterCalls == [][StepOverIsRight]_vars

(***************************************************************************)
(* C33: after every instruction executed without fault the item counter of *)
(* the VM equals the number of items the evaluation and alt stacks hold:   *)
(* one for each stack element and, for each distinct array, struct or map  *)
(* reachable from them, one for each of its elements.                      *)
(***************************************************************************)
C33_CounterEqualsItemsHeld ==
    (exec.live /\ exec.err = NoErr /\ ~HasFailed(v)) => v.size = ActualCount(v)

(***************************************************************************)
(* C34: fault is absorbing.  From a VM in fault state no call of Run,      *)
(* Step, StepInto, StepOver or StepOut executes an instruction, and the    *)
(* VM stays in fault state, until Load loads a program.                    *)
(***************************************************************************)
FaultStays == (HasFailed(v) /\ ~DoLoad) => (HasFailed(v') /\ ~exec'.live)
C34_FaultIsAbsorbing == [][FaultStays]_vars

(***************************************************************************)
(* C35: a CALLI, CALLE or CALLED with parameter count p moves the top p    *)
(* items of the caller's evaluation stack (below the hash for CALLED), in  *)
(* their order, to the new evaluation stack of the callee and leaves the   *)
(* rest; RET of such a context moves its rvcount top items, in their       *)
(* order, on top of the caller's stack; the call faults with fewer than p  *)
(* items and RET with fewer than rvcount items.                            *)
(***************************************************************************)
ParamOps == {"CALLI", "CALLE", "CALLED"}
CallMovesParams ==
    LET ins == Next(Context(v)).ins
        s == v.stacks[v.estack]
        add == IF ins.op = "CALLED" THEN 1 ELSE 0
        pc == ins.b
    IN  /\ Len(s) < pc + add => HasFailed(v')
        /\ ~HasFailed(v') =>
              /\ Len(v'.istack) = Len(v.istack) + 1
              /\ v'.estack \notin LiveStacks(v)
              /\ v'.estack = Context(v').estack
              /\ Context(v').rvcount = ins.a
              /\ v'.stacks[v'.estack] = SubSeq(s, Len(s) - add - pc + 1, Len(s) - add)
              /\ v'.stacks[v.estack] = SubSeq(s, 1, Len(s) - add - pc)
CalledWithOwnStack(vv) ==
    /\ Len(vv.istack) >= 2
    /\ Context(vv).estack # vv.istack[Len(vv.istack) - 1].estack
RetMovesValues ==
    LET rv == Context(v).rvcount
        s == v.stacks[v.estack]
        caller == v.istack[Len(v.istack) - 1].estack
    IN  /\ Len(s) < rv => HasFailed(v')
        /\ ~HasFailed(v') =>
              /\ Len(v'.istack) = Len(v.istack) - 1
              /\ v'.estack = caller
              /\ v'.stacks[caller] =
                    v.stacks[caller] \o SubSeq(s, Len(s) - rv + 1, Len(s))
ParamsAndValuesMoved ==
    exec'.live =>
        /\ Fetched \in ParamOps => CallMovesParams
        /\ (Fetched = "RET" /\ CalledWithOwnStack(v)) => RetMovesValues
C35_CallMovesParamsRetMovesValues == [][ParamsAndValuesMoved]_vars
C35_TwoValuesReturned ==
    /\ exec.live /\ exec.op = "RET" /\ ~HasFailed(v)
    /\ Len(v.istack) = 1
    /\ Context(v).prog[1] = Ins("CALLI", 2, 2, 2)
    /\ Context(v).prog[3] = I0("PUSH1")
    /\ v.stacks[v.estack] = <<IntItem(11), IntItem(13), IntItem(1)>>

(***************************************************************************)
(* C36: a protocol tick for a peer whose StartHeight is above the block    *)
(* height writes one getdata with the header hashes of the heights         *)
(* BlockHeight+1 .. min(HeaderHeight, BlockHeight+200) in ascending order; *)
(* when there is no such height and HeaderHeight is below StartHeight it   *)
(* writes getheaders from the current header hash; when StartHeight is not *)
(* above the block height it writes nothing; and after a tick that did not *)
(* fail the timer is armed again.                                          *)
(***************************************************************************)
LastHeight(b, h) == IF h < b + 200 THEN h ELSE b + 200
HashesFromTo(lo, hi) == [i \in 1..(hi - lo + 1) |-> HeaderHash(lo + i - 1)]
TickIsRight ==
    (protoTick /\ ~proto'.failed) =>
        LET b == proto.block
            h == proto.header
            last == LastHeight(b, h)
        IN  /\ proto'.timer = "armed" /\ proto'.running
            /\ proto'.wrote =
                  IF proto.start <= b THEN <<>>
                  ELSE IF last >= b + 1
                  THEN <<[cmd |-> "getdata", hashes |-> HashesFromTo(b + 1, last)]>>
                  ELSE IF h < proto.start
                  THEN <<[cmd |-> "getheaders", hashes |-> <<HeaderHash(h)>>]>>
                  ELSE <<>>
C36_TickRequestsNextBlocks == [][TickIsRight]_vars
C36_FullBatchRequested ==
    /\ proto.kind = "proto" /\ proto.ticks = 1 /\ proto.timer = "armed"
    /\ proto.header > proto.block + 200
    /\ Len(proto.wrote) = 1 /\ proto.wrote[1].cmd = "getdata"
    /\ Len(proto.wrote[1].hashes) = 200
    /\ proto.wrote[1].hashes[200] = HeaderHash(proto.block + 200)

(***************************************************************************)
(* C37: break state is safe to continue from.  When the VM is paused at a  *)
(* breakpoint and Run is called again and again, an instruction is         *)
(* executed, or the VM is in halt or fault state, at some later time: a    *)
(* call of Run from a breakpoint executes at least one instruction.        *)
(***************************************************************************)
Paused == Idle /\ Ready(v) /\ AtBreakpoint(v) /\ ~HasStopped(v)
C37_RunLeavesBreakpoint == Paused ~> (exec.live \/ HasHalted(v) \/ HasFailed(v))

(***************************************************************************)
(* C38: every address of the unconnected set is queued in the pool or has  *)
(* a dial in progress (so that with repeated RequestRemote calls it is     *)
(* dialed in the end), also when it was back-filled or queued again while  *)
(* the pool was full.                                                      *)
(***************************************************************************)
C38_UnconnectedQueuedOrDialing ==
    \A a \in Tracked :
        d.unconnectedAddrs[a] > 0 => InPool(d, a) \/ BagIn(a, dialing)

(***************************************************************************)
(* C39: for each registered peer the unregister effects (removal from the  *)
(* registry, UnregisterConnectedAddr, BackFill of its address) are done    *)
(* exactly once although the connection reader and the protocol loop may   *)
(* both send an unregister signal: the first signal the server loop takes  *)
(* finds the peer registered and does them, a later one does nothing, a    *)
(* peer leaves the registry in no other way and does not enter it again.   *)
(***************************************************************************)
SignalTaken(c, who) == link[c][who] = "unregister" /\ link'[c][who] = "done"
NoSignalYet(c) == \A w \in Tasks : link[c][w] # "done"
UnregisterEffects(c) ==
    /\ c \in peers /\ peers' = peers \ {c}
    /\ d' = UnregisterConnectedAddr(d, PeerAddr(c))
    /\ dropping = 0 /\ dropping' = PeerAddr(c)
UnregisteredOnce ==
    \A c \in Conns :
        /\ (c \in peers /\ c \notin peers') =>
              \E who \in Tasks : SignalTaken(c, who) /\ NoSignalYet(c)
        /\ \A who \in Tasks : SignalTaken(c, who) =>
              IF NoSignalYet(c) THEN UnregisterEffects(c)
              ELSE c \notin peers /\ UNCHANGED <<peers, d, dropping>>
        /\ (c \notin peers /\ c \in peers') => NoSignalYet(c)
        /\ (dropping = PeerAddr(c) /\ dropping' # dropping) =>
              d' = BackFill(d, <<dropping>>) /\ dropping' = 0 /\ peers' = peers
BlocksWanted ==
    LET n == IF dump.count = 0 THEN dump.chain - dump.skip ELSE dump.count IN
    [k \in 1..n |-> dump.skip + k]
C40_DumpWritesCountedBlocks ==
    /\ (dump.kind = "dump" /\ dump.stage \in {"dumped", "restored"}) =>
          IF dump.skip + dump.count > dump.chain
          THEN dump.err /\ dump.file.records = <<>>
          ELSE /\ ~dump.err
               /\ dump.file.header = <<Len(dump.file.records)>>
               /\ dump.file.records = BlocksWanted
    /\ (dump.kind = "dump" /\ dump.stage = "restored") =>
          ~dump.rerr /\ dump.restored = dump.into + Len(BlocksWanted)
====
